---- MODULE Spec2Model ----
(***************************************************************************)
(* Model of the Ollama GPT-OSS streaming core of obsidian-copilot:         *)
(*   - ThinkBlockStreamer (transcript classifier and tool-call             *)
(*     accumulator),                                                       *)
(*   - LLMChainRunner.run on the native Ollama path (primary stream, tool  *)
(*     loop, thinking-only detection and recovery, close).                 *)
(*                                                                         *)
(* Text is modelled as a sequence of runs [k, n]: n characters of class k. *)
(*   "rsn"    reasoning characters                                         *)
(*   "ans"    non-blank answer characters                                  *)
(*   "ws"     whitespace characters (blanks and newlines)                  *)
(*   "open"   the literal <think>        (7 characters)                    *)
(*   "close"  the literal </think>       (8 characters)                    *)
(*   "mopen"  the literal <THINKING>     (10 characters)                   *)
(*   "mclose" the literal </THINKING>    (11 characters)                   *)
(*   "err"    the formatted error chunk                                    *)
(* Adjacent runs of the same character class are one run, as in a string.  *)
(***************************************************************************)
EXTENDS Integers, Sequences, FiniteSets, TLC

VARIABLES
    \* ---- ThinkBlockStreamer fields (the runner's current `streamer`) ----
    hasOpenThinkBlock,   \* private hasOpenThinkBlock
    fullResponse,        \* private fullResponse, a Text
    errorResponse,       \* private errorResponse, a Text
    toolCallChunks,      \* Map<number, ToolCallChunk>, in insertion order
    accumulatedToolCalls,\* NativeToolCall[] set by setToolCalls
    excludeThinking,     \* constructor argument
    \* ---- LLMChainRunner.run locals ----
    pc,                  \* position inside run() and its helpers
    thinkingLevel,       \* customModel.ollamaThinkingLevel as run() tests
                         \* it after the tool loop ("none": not configured,
                         \* "unread": not tested yet)
    aborted,             \* abortController.signal.aborted
    abortReason,         \* abortController.signal.reason
    messages,            \* the conversation array
    iteration,           \* handleNativeOllamaToolCalls: iteration
    toolCalls,           \* handleNativeOllamaToolCalls: const toolCalls
    toolIdx,             \* position of the for-of loop over toolCalls
    recoveryContent,     \* recoverFromThinkingOnlyResponse: recoveryContent
    result,              \* value returned by run(), set when pc = "done"
    \* ---- history (observations, never read by the program) ----
    last,                \* the streamer operation performed last, its input
                         \* and the transcript it started from
    fragLog,             \* every tool-call fragment accumulated, in arrival
                         \* order, with the number of the stream it came in
    requests,            \* chat requests issued, in order
    execLog,             \* tool executions started, in order
    hist,                \* counters and marks of the exchange
    framesLeft,          \* frames (or reads) the upstream may still send
    \* ---- NativeOllamaClient.stream locals ----
    response,            \* what ollamaAwareFetch resolved to
    buffer,              \* let buffer: the text not yet split into lines
    lines,               \* the lines the for-of loop has still to take up
    yielded,             \* the chunks yielded so far, in order
    thrown,              \* the error stream() has raised, if any
    \* ---- history of the decoder ----
    received,            \* the values reader.read() has returned, in order
    decoded              \* what became of each line the loop took up

vars == << hasOpenThinkBlock, fullResponse, errorResponse, toolCallChunks,
           accumulatedToolCalls, excludeThinking, pc, thinkingLevel, aborted,
           abortReason, messages, iteration, toolCalls, toolIdx,
           recoveryContent, result, last, fragLog, requests, execLog, hist,
           framesLeft, response, buffer, lines, yielded, thrown, received,
           decoded >>

decoderVars == << response, buffer, lines, yielded, thrown, received,
                  decoded >>

streamerVars == << hasOpenThinkBlock, fullResponse, errorResponse,
                   toolCallChunks, accumulatedToolCalls >>

-----------------------------------------------------------------------------
(* Text *)

Run(k, n) == [k |-> k, n |-> n]

OPEN == Run("open", 7)
CLOSE == Run("close", 8)
MOPEN == Run("mopen", 10)
MCLOSE == Run("mclose", 11)
NL == Run("ws", 1)

Str(k, n) == IF n = 0 THEN << >> ELSE << Run(k, n) >>

CharClasses == {"rsn", "ans", "ws"}

\* string concatenation s + t
Cat(s, t) ==
    IF s = << >> THEN t
    ELSE IF t = << >> THEN s
    ELSE IF s[Len(s)].k = t[1].k /\ t[1].k \in CharClasses
         THEN SubSeq(s, 1, Len(s) - 1)
              \o << Run(t[1].k, s[Len(s)].n + t[1].n) >>
              \o Tail(t)
         ELSE s \o t

RECURSIVE TLen(_)
\* s.length
TLen(s) == IF s = << >> THEN 0 ELSE s[1].n + TLen(Tail(s))

\* s.trim()
RECURSIVE TrimLeft(_)
TrimLeft(s) ==
    IF s = << >> THEN s
    ELSE IF s[1].k = "ws" THEN TrimLeft(Tail(s)) ELSE s

RECURSIVE TrimRight(_)
TrimRight(s) ==
    IF s = << >> THEN s
    ELSE IF s[Len(s)].k = "ws" THEN TrimRight(SubSeq(s, 1, Len(s) - 1)) ELSE s

Trim(s) == TrimRight(TrimLeft(s))

\* position of the first run of class k at or after position i, 0 if none
RECURSIVE IndexOf(_, _, _)
IndexOf(s, k, i) ==
    IF i > Len(s) THEN 0
    ELSE IF s[i].k = k THEN i ELSE IndexOf(s, k, i + 1)

\* content.includes("<THINKING>")
IncludesMarker(s) == IndexOf(s, "mopen", 1) # 0

-----------------------------------------------------------------------------
(* ThinkBlockStreamer: the transcript classifier.  A streamer value s is   *)
(* the pair [open |-> hasOpenThinkBlock, full |-> fullResponse]; a chunk c *)
(* is a record                                                             *)
(*   ctype             "string", "array" or "none": the type of c.content  *)
(*   content           the Text of a string content                        *)
(*   items             the items [type, text] of an array content          *)
(*   thinking          length of additional_kwargs.thinking (0: absent)    *)
(*   reasoning_content length of additional_kwargs.reasoning_content       *)
(*   delta_reasoning   length of additional_kwargs.delta.reasoning         *)
(*   reasoning_details additional_kwargs.reasoning_details is a non-empty  *)
(*                     array                                               *)
(*   tool_call_chunks  the tool-call fragments of the chunk                *)

\* this.fullResponse += "\n<think>"; this.hasOpenThinkBlock = true  (if closed)
OpenBlock(s) ==
    IF s.open THEN s
    ELSE [open |-> TRUE, full |-> Cat(s.full, << NL, OPEN >>)]

\* this.fullResponse += "</think>"; this.hasOpenThinkBlock = false  (if open)
CloseBlock(s) ==
    IF s.open THEN [open |-> FALSE, full |-> Cat(s.full, << CLOSE >>)]
    ELSE s

\* the text takes the place of the transcript
AddReplace(s, txt) == [s EXCEPT !.full = txt]

Add(s, txt) == [s EXCEPT !.full = Cat(s.full, txt)]

RECURSIVE ClaudeItems(_, _, _, _, _)
ClaudeItems(s, items, i, textContent, excl) ==
    IF i > Len(items) THEN [s |-> s, textContent |-> textContent]
    ELSE IF items[i].type = "text"
         THEN ClaudeItems(s, items, i + 1, Cat(textContent, items[i].text), excl)
    ELSE IF items[i].type = "thinking" /\ ~excl
         THEN ClaudeItems(Add(OpenBlock(s), items[i].text), items, i + 1,
                          textContent, excl)
    ELSE ClaudeItems(s, items, i + 1, textContent, excl)

handleClaudeChunk(s, c, excl) ==
    LET r == ClaudeItems(s, c.items, 1, << >>, excl)
        closed == IF r.textContent # << >> THEN CloseBlock(r.s) ELSE r.s
    IN  Add(closed, r.textContent)

handleDeepseekChunk(s, c, excl) ==
    LET s1 == IF c.ctype = "string" THEN Add(s, c.content) ELSE s
    IN  IF c.reasoning_content > 0 /\ ~excl
        THEN Add(OpenBlock(s1), Str("rsn", c.reasoning_content))
        ELSE s1

handleOllamaThinkingChunk(s, c, excl) ==
    IF c.thinking > 0 /\ ~excl
    THEN Add(OpenBlock(s), Str("rsn", c.thinking))
    ELSE s

\* content.match(/<THINKING>([\s\S]*?)<\/THINKING>/): the first <THINKING>
\* and the first </THINKING> after it; [from |-> 0] when there is no match
ThinkingMatch(content) ==
    LET from == IndexOf(content, "mopen", 1)
        to == IF from = 0 THEN 0 ELSE IndexOf(content, "mclose", from + 1)
    IN  IF to = 0 THEN [from |-> 0, to |-> 0] ELSE [from |-> from, to |-> to]

\* thinkingMatch[1]
ThinkingText(content) ==
    LET m == ThinkingMatch(content) IN SubSeq(content, m.from + 1, m.to - 1)

\* content.substring(thinkingMatch.index + thinkingMatch[0].length)
RemainingContent(content) ==
    LET m == ThinkingMatch(content) IN SubSeq(content, m.to + 1, Len(content))

\* the handler without the remaining-content branch: text after the closing
\* marker is not appended
MarkersDropRemaining(s, content, excl) ==
    IF ThinkingMatch(content).from # 0
    THEN IF excl THEN s ELSE Add(OpenBlock(s), ThinkingText(content))
    ELSE Add(s, content)

handleOllamaThinkingMarkers(s, content, excl) ==
    IF ThinkingMatch(content).from # 0
    THEN LET s1 == IF excl THEN s
                   ELSE Add(OpenBlock(s), ThinkingText(content))
             remainingContent == RemainingContent(content)
         IN  IF Trim(remainingContent) # << >>
             THEN Add(CloseBlock(s1), remainingContent)
             ELSE s1
    ELSE Add(s, content)

handleOpenRouterChunk(s, c, excl) ==
    IF c.delta_reasoning > 0
    THEN IF excl THEN s ELSE Add(OpenBlock(s), Str("rsn", c.delta_reasoning))
    ELSE IF c.ctype = "string" /\ c.content # << >>
         THEN Add(CloseBlock(s), c.content)
         ELSE s

isThinkingChunk(c) ==
    \/ c.ctype = "array"
    \/ c.delta_reasoning > 0
    \/ c.reasoning_details
    \/ c.reasoning_content > 0

hasOllamaThinking(c) == c.thinking > 0

hasThinkingMarkers(c) == c.ctype = "string" /\ IncludesMarker(c.content)

\* the chunk is routed by its format with the block left as it is
ClassifyNoClose(s, c, excl) ==
    IF c.ctype = "array" THEN handleClaudeChunk(s, c, excl)
    ELSE IF hasThinkingMarkers(c)
         THEN handleOllamaThinkingMarkers(s, c.content, excl)
    ELSE IF hasOllamaThinking(c) THEN handleOllamaThinkingChunk(s, c, excl)
    ELSE IF c.reasoning_content > 0 THEN handleDeepseekChunk(s, c, excl)
    ELSE IF isThinkingChunk(c) THEN handleOpenRouterChunk(s, c, excl)
    ELSE handleDeepseekChunk(s, c, excl)

\* processChunk, the transcript part: close the block before a chunk that
\* bears no reasoning, then route the chunk by its format
Classify(s, c, excl) ==
    LET s0 == IF s.open /\ ~isThinkingChunk(c) /\ ~hasOllamaThinking(c)
                 /\ ~hasThinkingMarkers(c)
              THEN CloseBlock(s) ELSE s
    IN  IF c.ctype = "array" THEN handleClaudeChunk(s0, c, excl)
        ELSE IF hasThinkingMarkers(c)
             THEN handleOllamaThinkingMarkers(s0, c.content, excl)
        ELSE IF hasOllamaThinking(c) THEN handleOllamaThinkingChunk(s0, c, excl)
        ELSE IF c.reasoning_content > 0 THEN handleDeepseekChunk(s0, c, excl)
        ELSE IF isThinkingChunk(c) THEN handleOpenRouterChunk(s0, c, excl)
        ELSE handleDeepseekChunk(s0, c, excl)

-----------------------------------------------------------------------------
(* ThinkBlockStreamer: the tool-call accumulator.  A string is a sequence  *)
(* of atoms (pieces of text); "" is << >> and + is \o.  A fragment is      *)
(* [index, id, name, args]: index -1 when the fragment has none, id    *)
(* "" when it has none.  The Map toolCallChunks is the sequence of its     *)
(* entries [idx, id, name, args] in insertion order.                       *)

\* position of the entry of key idx, 0 if the Map has none
RECURSIVE MapPos(_, _, _)
MapPos(m, idx, i) ==
    IF i > Len(m) THEN 0
    ELSE IF m[i].idx = idx THEN i ELSE MapPos(m, idx, i + 1)

\* a later fragment replaces name and args instead of extending them
AccumulateOverwrite(m, tc) ==
    LET idx == IF tc.index < 0 THEN 0 ELSE tc.index
        p == MapPos(m, idx, 1)
        entry == [idx |-> idx, id |-> tc.id, name |-> tc.name, args |-> tc.args]
    IN  IF p = 0 THEN Append(m, entry) ELSE [m EXCEPT ![p] = entry]

\* the body of the for loop of handleToolCallChunks, for one fragment
Accumulate(m, tc) ==
    LET idx == IF tc.index < 0 THEN 0 ELSE tc.index
        p == MapPos(m, idx, 1)
        existing == IF p = 0 THEN [idx |-> idx, id |-> "", name |-> << >>,
                                   args |-> << >>]
                    ELSE m[p]
        entry == [idx |-> idx,
                  id |-> IF tc.id # "" THEN tc.id ELSE existing.id,
                  name |-> existing.name \o tc.name,
                  args |-> existing.args \o tc.args]
    IN  IF p = 0 THEN Append(m, entry) ELSE [m EXCEPT ![p] = entry]

RECURSIVE handleToolCallChunks(_, _)
handleToolCallChunks(m, tcs) ==
    IF tcs = << >> THEN m
    ELSE handleToolCallChunks(Accumulate(m, Head(tcs)), Tail(tcs))

\* JSON.parse of an argument text.  The atoms "{" and "}" are the braces of
\* an object and every other atom is one key/value pair; a text parses when
\* it is one object, and the parsed object is the sequence of its pairs.
ParseArgs(text) ==
    IF text = << >> THEN [ok |-> TRUE, pairs |-> << >>]
    ELSE IF /\ Len(text) >= 2
            /\ text[1] = "{"
            /\ text[Len(text)] = "}"
            /\ \A i \in 2 .. Len(text) - 1 : text[i] \notin {"{", "}"}
         THEN [ok |-> TRUE, pairs |-> SubSeq(text, 2, Len(text) - 1)]
         ELSE [ok |-> FALSE, pairs |-> << >>]

\* the entries of the Map by increasing index
RECURSIVE ByIndex(_)
ByIndex(m) ==
    IF m = << >> THEN << >>
    ELSE LET lo == CHOOSE i \in 1 .. Len(m) :
                       \A j \in 1 .. Len(m) : m[i].idx <= m[j].idx
             rest == [j \in 1 .. Len(m) - 1 |-> IF j < lo THEN m[j] ELSE m[j + 1]]
         IN  << m[lo] >> \o ByIndex(rest)

\* buildToolCallsFromChunks: one call per entry, in index order
buildToolCallsFromChunks(m) ==
    LET s == ByIndex(m)
    IN  [i \in 1 .. Len(s) |->
            [id |-> s[i].id, name |-> s[i].name, argsText |-> s[i].args,
             args |-> ParseArgs(s[i].args), idx |-> s[i].idx]]

getToolCalls(m, acc) ==
    IF Len(acc) > 0 THEN acc ELSE buildToolCallsFromChunks(m)

hasToolCalls(m, acc) == Len(m) > 0 \/ Len(acc) > 0

\* clearToolCalls that leaves the chunk map as it is
ClearKeepsChunks(m) == m

\* clearToolCalls: the chunk map after this.toolCallChunks.clear()
clearToolCalls(m) == << >>

-----------------------------------------------------------------------------
(* ThinkBlockStreamer.analyzeContent *)

\* the matches of /<think>([\s\S]*?)<\/think>/g in s from position i on, as
\* pairs <<position of <think>, position of </think> >>
RECURSIVE ThinkMatches(_, _)
ThinkMatches(s, i) ==
    LET o == IndexOf(s, "open", i)
        c == IF o = 0 THEN 0 ELSE IndexOf(s, "close", o + 1)
    IN  IF c = 0 THEN << >> ELSE << << o, c >> >> \o ThinkMatches(s, c + 1)

RECURSIVE SumCaptured(_, _)
SumCaptured(s, ms) ==
    IF ms = << >> THEN 0
    ELSE TLen(SubSeq(s, ms[1][1] + 1, ms[1][2] - 1)) + SumCaptured(s, Tail(ms))

\* content.replace(/<think>[\s\S]*?<\/think>/g, "")
RECURSIVE Unmatched(_, _, _)
Unmatched(s, ms, i) ==
    IF ms = << >> THEN SubSeq(s, i, Len(s))
    ELSE Cat(SubSeq(s, i, ms[1][1] - 1), Unmatched(s, Tail(ms), ms[1][2] + 1))

analyzeContent(content) ==
    LET ms == ThinkMatches(content, 1)
    IN  [totalLength |-> TLen(content),
         thinkingLength |-> SumCaptured(content, ms),
         contentLength |-> TLen(Trim(Unmatched(content, ms, 1)))]

-----------------------------------------------------------------------------
(* LLMChainRunner.detectThinkingOnlyResponse *)

\* level low has the minimum of level medium
minThinkingCharsLowAsMedium(level) ==
    IF level = "low" THEN 350 ELSE IF level = "medium" THEN 350 ELSE 500

minThinkingChars(level) ==
    IF level = "low" THEN 200 ELSE IF level = "medium" THEN 350 ELSE 500

maxFinalChars(level) ==
    IF level = "low" THEN 50 ELSE IF level = "medium" THEN 75 ELSE 100

\* minThinkingRatio, in hundredths
minThinkingRatioPct(level) ==
    IF level = "low" THEN 85 ELSE IF level = "medium" THEN 88 ELSE 90

Max(a, b) == IF a >= b THEN a ELSE b

\* thinkingLength / Math.max(content.length, 1) > minThinkingRatio, compared
\* without rounding
detectThinkingOnlyResponse(content, level) ==
    LET analysis == analyzeContent(content)
    IN  /\ analysis.thinkingLength > minThinkingChars(level)
        /\ analysis.contentLength < maxFinalChars(level)
        /\ analysis.thinkingLength * 100
             > minThinkingRatioPct(level) * Max(analysis.totalLength, 1)

-----------------------------------------------------------------------------
(* Bounds of the model and the inputs drawn within them *)

\* frames the upstream sends in one exchange, over all its streams
MaxFrames == 4
\* chunks fed to a streamer that is driven directly
MaxChunks == 3
\* chunks with tool-call fragments fed to an accumulator driven directly
MaxFragmentFrames == 4
\* calls of clearToolCalls on a streamer that is driven directly
MaxClears == 1
\* characters of a long and of a short reasoning text, of an answer text
RsnLong == 600
RsnShort == 20
AnsLen == 12
\* characters of a short answer text
ShortAnsLen == 10

Chunk(ctype, content, items, th, rc, dr, rd, tcs) ==
    [ctype |-> ctype, content |-> content, items |-> items, thinking |-> th,
     reasoning_content |-> rc, delta_reasoning |-> dr,
     reasoning_details |-> rd, tool_call_chunks |-> tcs]

\* a string content with no other field
Plain(content) == Chunk("string", content, << >>, 0, 0, 0, FALSE, << >>)

\* `<THINKING>${thinkingText}</THINKING>` as ollamaAwareFetch writes it
Marked(n) == << MOPEN, Run("rsn", n), MCLOSE >>

Fragment(index, id, name, args) ==
    [index |-> index, id |-> id, name |-> name, args |-> args]

\* a tool call as NativeOllamaClient.stream hands it on: the index is the
\* position in the frame's tool_calls, the arguments are one JSON object
NativeCall(idx, id, name, pair) ==
    Fragment(idx, id, << name >>, << "{", pair, "}" >>)

\* the tool calls of a frame that has some
NativeCalls ==
    << NativeCall(0, "c1", "web_search", "q"),
       NativeCall(1, "", "lookup", "q") >>

\* the chunks NativeOllamaClient.stream yields, one per line of the body
\* that ollamaAwareFetch hands on: a line of reasoning (the marker pair), a
\* line of answer text, a line with tool calls and no content, and a line of
\* reasoning that also holds the tool calls of the frame it was split from
NativeFrames ==
    { Chunk("string", c, << >>, 0, 0, 0, FALSE, << >>) :
        c \in { Marked(RsnLong), << Run("ans", AnsLen) >> } }
    \cup { Chunk("string", c, << >>, 0, 0, 0, FALSE, NativeCalls) :
             c \in { << >>, Marked(RsnShort) } }

\* the chunks the stream of a recovery request yields: those of any stream,
\* and a short answer
RecoveryFrames ==
    NativeFrames \cup { Plain(<< Run("ans", ShortAnsLen) >>) }

-----------------------------------------------------------------------------
(* What a chunk carries, read off the chunk alone (used by the history)    *)

RECURSIVE ItemChars(_, _)
ItemChars(items, type) ==
    IF items = << >> THEN 0
    ELSE (IF items[1].type = type THEN TLen(items[1].text) ELSE 0)
         + ItemChars(Tail(items), type)

\* reasoning characters of a chunk, in whichever encoding
RsnChars(c) ==
    c.thinking + c.reasoning_content + c.delta_reasoning
    + (IF c.ctype = "string" /\ ThinkingMatch(c.content).from # 0
       THEN TLen(ThinkingText(c.content)) ELSE 0)
    + (IF c.ctype = "array" THEN ItemChars(c.items, "thinking") ELSE 0)

\* answer characters of a chunk: its content outside a marker pair
AnsChars(c) ==
    IF c.ctype = "string"
    THEN IF ThinkingMatch(c.content).from # 0
         THEN TLen(SubSeq(c.content, 1, ThinkingMatch(c.content).from - 1))
              + TLen(RemainingContent(c.content))
         ELSE TLen(c.content)
    ELSE IF c.ctype = "array" THEN ItemChars(c.items, "text") ELSE 0

-----------------------------------------------------------------------------
(* Messages of the conversation *)

Msg(role, content, tcs, id, name) ==
    [role |-> role, content |-> content, tool_calls |-> tcs,
     tool_call_id |-> id, name |-> name]

\* createAIMessageWithToolCalls(this.fullResponse, toolCalls)
buildAIMessage(full, m, acc) == Msg("ai", full, getToolCalls(m, acc), "", << >>)

\* createToolResultMessage(toolCall.id, toolCall.name, JSON.stringify(result))
createToolResultMessage(id, name, res) == Msg("tool", res, << >>, id, name)

\* a tool of any name is taken for a known one
ToolResultAnyName(call, throws) ==
    IF throws THEN "error: Tool execution failed" ELSE "payload"

\* the result of one tool call: the payload of the tool, or {error: message}
\* when the tool is unknown or its execution throws
ToolResult(call, throws) ==
    IF call.name \in { << "web_search" >>, << "web_fetch" >> }
    THEN IF throws THEN "error: Tool execution failed" ELSE "payload"
    ELSE "error: Unknown tool"

MAX_ITERATIONS == 3

\* the values of customModel.ollamaThinkingLevel
Levels == {"none", "low", "medium", "high"}

InitialMessages ==
    << Msg("system", "system prompt", << >>, "", << >>),
       Msg("user", "question", << >>, "", << >>) >>

RecoveryPrompt == Msg("user", "final answer request", << >>, "", << >>)

\* one call of client.stream(messages, options)
Request(kind, tools, msgs) ==
    [kind |-> kind, tools |-> tools, nmsg |-> Len(msgs)]

\* a field of a message of the request body: left out, or set to a text
Absent == [present |-> FALSE, v |-> << >>]

Field(v) == [present |-> TRUE, v |-> v]

\* NativeOllamaClient.mapMessageTypeToRole
mapMessageTypeToRole(messageType) ==
    CASE messageType = "human" -> "user"
      [] messageType = "ai" -> "assistant"
      [] messageType = "system" -> "system"
      [] messageType = "tool" -> "tool"
      [] OTHER -> IF messageType \in {"assistant", "user"} THEN messageType
                  ELSE "user"

\* id: tc.id || tc.name, as a text
SerializedCallId(tc) == IF tc.id # "" THEN << tc.id >> ELSE tc.name

\* the callback of messages.map in stream(): the message of the request
\* body made from a message of the conversation.  tool_calls is set for an
\* AI message that has some; tool_call_id and name are set for a tool
\* message, each only if it is not empty
toOllamaMessage(m) ==
    [role |-> mapMessageTypeToRole(m.role),
     content |-> m.content,
     tool_calls |->
         IF m.role = "ai" /\ Len(m.tool_calls) > 0
         THEN Field([k \in 1 .. Len(m.tool_calls) |->
                       [id |-> SerializedCallId(m.tool_calls[k]),
                        name |-> m.tool_calls[k].name,
                        arguments |-> m.tool_calls[k].args]])
         ELSE Absent,
     tool_call_id |->
         IF m.role = "tool" /\ m.tool_call_id # ""
         THEN Field(<< m.tool_call_id >>) ELSE Absent,
     name |->
         IF m.role = "tool" /\ m.name # << >> THEN Field(m.name) ELSE Absent]

-----------------------------------------------------------------------------
(* Initial states *)

NoChunk == Chunk("none", << >>, << >>, 0, 0, 0, FALSE, << >>)

NoLast == [op |-> "none", chunk |-> NoChunk, full |-> << >>, open |-> FALSE]

NoText == [set |-> FALSE, text |-> << >>]

Some(txt) == [set |-> TRUE, text |-> txt]

NoHist == [epoch |-> 0, rsnIn |-> 0, ansIn |-> 0, ceiling |-> NoText,
           raised |-> FALSE, repair |-> "none", preRepair |-> NoText,
           detections |-> 0, detectedPending |-> FALSE,
           shown |-> NoText]

\* updateCurrentAiMessage(txt): the history keeps the value passed last
Shown(h, txt) == [h EXCEPT !.shown = Some(txt)]

\* no error raised
NoError == [name |-> "none", status |-> 0, text |-> ""]

\* no response yet
NoResponse == [standard |-> FALSE, status |-> 0, text |-> ""]

\* NativeOllamaClient.stream before its first statement
IdleDecoder ==
    /\ response = NoResponse
    /\ buffer = << >>
    /\ lines = << >>
    /\ yielded = << >>
    /\ thrown = NoError
    /\ received = << >>
    /\ decoded = << >>

FreshStreamer ==
    /\ hasOpenThinkBlock = FALSE
    /\ fullResponse = << >>
    /\ errorResponse = << >>
    /\ toolCallChunks = << >>
    /\ accumulatedToolCalls = << >>

\* run() on the native Ollama path, up to the first request
Init ==
    /\ FreshStreamer
    /\ excludeThinking \in BOOLEAN
    /\ pc = "start"
    /\ thinkingLevel = "unread"
    /\ aborted = FALSE
    /\ abortReason = "none"
    /\ messages = InitialMessages
    /\ iteration = 0
    /\ toolCalls = << >>
    /\ toolIdx = 0
    /\ recoveryContent = << >>
    /\ result = << >>
    /\ last = NoLast
    /\ fragLog = << >>
    /\ requests = << >>
    /\ execLog = << >>
    /\ hist = NoHist
    /\ framesLeft = MaxFrames
    /\ IdleDecoder

-----------------------------------------------------------------------------
(* Streamer methods as steps on the current streamer *)

\* streamer.processChunk(c)
DoProcessChunk(c) ==
    LET s == Classify([open |-> hasOpenThinkBlock, full |-> fullResponse], c,
                      excludeThinking)
    IN  /\ toolCallChunks' = handleToolCallChunks(toolCallChunks,
                                                  c.tool_call_chunks)
        /\ hasOpenThinkBlock' = s.open
        /\ fullResponse' = s.full
        /\ last' = [op |-> "processChunk", chunk |-> c, full |-> fullResponse,
                    open |-> hasOpenThinkBlock]
        /\ fragLog' = fragLog \o [i \in 1 .. Len(c.tool_call_chunks) |->
                                    [frag |-> c.tool_call_chunks[i],
                                     epoch |-> hist.epoch]]
        /\ hist' = Shown([hist EXCEPT !.rsnIn = @ + RsnChars(c),
                                      !.ansIn = @ + AnsChars(c)], s.full)
        /\ UNCHANGED << errorResponse, accumulatedToolCalls >>

\* streamer.clearToolCalls()
DoClearToolCalls ==
    /\ toolCallChunks' = clearToolCalls(toolCallChunks)
    /\ accumulatedToolCalls' = << >>
    /\ last' = [op |-> "clearToolCalls", chunk |-> NoChunk,
                full |-> fullResponse, open |-> hasOpenThinkBlock]

\* close() that returns the error text alone
CloseDropsTranscript(open, full, err) == err

\* the content streamer.close() returns
closeContent(open, full, err) ==
    Cat(IF open THEN Cat(full, << CLOSE >>) ELSE full, err)

\* formatErrorChunk(errorMessage)
ErrorChunk == << Run("err", 1) >>

-----------------------------------------------------------------------------
(* LLMChainRunner.run, native Ollama path *)

runLocals == << iteration, toolCalls, toolIdx, recoveryContent >>

\* the error is shown whether or not the exchange was cancelled
ErrorShownAlways(ab) == TRUE

\* if (error.name === "AbortError" || abortController.signal.aborted) the
\* error is passed over, else handleError shows it
ErrorShown(ab) == ~ab

\* the catch block of run(): an abort is silent, any other error becomes the
\* error chunk of the streamer
CatchInRun ==
    /\ errorResponse' = IF ErrorShown(aborted) THEN ErrorChunk
                        ELSE errorResponse
    /\ hist' = [hist EXCEPT !.raised = ErrorShown(aborted)]
    /\ pc' = "close"

\* nativeClient.stream(messages, {tools, signal}): the primary request; a
\* non-success status throws into the catch block of run()
StartStream(ok) ==
    /\ pc = "start"
    /\ requests' = Append(requests, Request("primary", TRUE, messages))
    /\ IF ok
       THEN /\ pc' = "stream"
            /\ UNCHANGED << errorResponse, hist >>
       ELSE CatchInRun
    /\ UNCHANGED << hasOpenThinkBlock, fullResponse, toolCallChunks,
                    accumulatedToolCalls, excludeThinking, decoderVars,
                    thinkingLevel,
                    aborted, abortReason, messages, runLocals, result, last,
                    fragLog, execLog, framesLeft >>

AfterStream(p) == IF p = "stream" THEN "checkTools" ELSE "loopTail"

\* one turn of `for await (const chunk of chatStream)`, in run() and in the
\* tool loop: break when aborted, else streamer.processChunk(chunk)
StreamChunk(c) ==
    /\ pc \in {"stream", "toolStream"}
    /\ framesLeft > 0
    /\ framesLeft' = framesLeft - 1
    /\ IF aborted
       THEN /\ pc' = AfterStream(pc)
            /\ UNCHANGED << streamerVars, last, fragLog, hist >>
       ELSE /\ DoProcessChunk(c)
            /\ pc' = pc
    /\ UNCHANGED << excludeThinking, decoderVars,
                    thinkingLevel, aborted, abortReason,
                    messages, runLocals, result, requests, execLog >>

\* the stream ends (done line or end of body)
StreamEnd ==
    /\ pc \in {"stream", "toolStream"}
    /\ pc' = AfterStream(pc)
    /\ UNCHANGED << streamerVars, excludeThinking, decoderVars,
                    thinkingLevel, aborted,
                    abortReason, messages, runLocals, result, last, fragLog,
                    requests, execLog, hist, framesLeft >>

\* if (streamer.hasToolCalls()) enter handleNativeOllamaToolCalls, which
\* first pushes the AI message carrying the tool calls
CheckTools ==
    /\ pc = "checkTools"
    /\ IF hasToolCalls(toolCallChunks, accumulatedToolCalls)
       THEN /\ messages' = Append(messages,
                  buildAIMessage(fullResponse, toolCallChunks,
                                 accumulatedToolCalls))
            /\ iteration' = 0
            /\ pc' = "loopHead"
       ELSE /\ pc' = "detect"
            /\ UNCHANGED << messages, iteration >>
    /\ UNCHANGED << streamerVars, excludeThinking, decoderVars,
                    thinkingLevel, aborted,
                    abortReason, toolCalls, toolIdx, recoveryContent, result,
                    last, fragLog, requests, execLog, hist, framesLeft >>

\* the loop guard with the iteration ceiling left out
LoopGuardNoCeiling(it, m, acc) == hasToolCalls(m, acc)

\* while (iteration < MAX_ITERATIONS && streamer.hasToolCalls())
LoopGuard(it, m, acc) == it < MAX_ITERATIONS /\ hasToolCalls(m, acc)

LoopHead ==
    /\ pc = "loopHead"
    /\ IF LoopGuard(iteration, toolCallChunks, accumulatedToolCalls)
       THEN /\ iteration' = iteration + 1
            /\ toolCalls' = getToolCalls(toolCallChunks, accumulatedToolCalls)
            /\ toolIdx' = 1
            /\ pc' = "exec"
            /\ hist' = hist
       ELSE /\ pc' = "detect"
            /\ hist' = [hist EXCEPT !.ceiling =
                          IF hasToolCalls(toolCallChunks, accumulatedToolCalls)
                          THEN Some(fullResponse) ELSE NoText]
            /\ UNCHANGED << iteration, toolCalls, toolIdx >>
    /\ UNCHANGED << streamerVars, excludeThinking, decoderVars,
                    thinkingLevel, aborted,
                    abortReason, messages, recoveryContent, result, last,
                    fragLog, requests, execLog, framesLeft >>

\* the for loop is left after its first turn
RoundDoneEarly(idx, calls) == idx > 1

\* for (const toolCall of toolCalls) has run through the calls
RoundDone(idx, calls) == idx > Len(calls)

\* for (const toolCall of toolCalls): the call of the tool is started
StartTool ==
    /\ pc = "exec"
    /\ ~RoundDone(toolIdx, toolCalls)
    /\ execLog' = Append(execLog, [round |-> iteration, pos |-> toolIdx,
                                   call |-> toolCalls[toolIdx],
                                   epoch |-> hist.epoch])
    /\ pc' = "execWait"
    /\ UNCHANGED << streamerVars, excludeThinking, decoderVars,
                    thinkingLevel, aborted,
                    abortReason, messages, runLocals, result, last, fragLog,
                    requests, hist, framesLeft >>

\* a call that threw is taken up again
NextCallRetry(idx, throws) == IF throws THEN idx ELSE idx + 1

\* the for-of loop goes on to the next call, whether the call returned or
\* its error was caught
NextCall(idx, throws) == idx + 1

\* the awaited tool call returns or throws; its result message is pushed
FinishTool(throws) ==
    /\ pc = "execWait"
    /\ messages' = Append(messages,
           createToolResultMessage(toolCalls[toolIdx].id,
                                   toolCalls[toolIdx].name,
                                   ToolResult(toolCalls[toolIdx], throws)))
    /\ toolIdx' = NextCall(toolIdx, throws)
    /\ pc' = "exec"
    /\ UNCHANGED << streamerVars, excludeThinking, decoderVars,
                    thinkingLevel, aborted,
                    abortReason, iteration, toolCalls, recoveryContent, result,
                    last, fragLog, requests, execLog, hist, framesLeft >>

\* after the last tool result: streamer.clearToolCalls(), then
\* client.stream(messages, {signal}); a non-success status throws out of the
\* tool loop into the catch block of run()
Resubmit(ok) ==
    /\ pc = "exec"
    /\ RoundDone(toolIdx, toolCalls)
    /\ DoClearToolCalls
    /\ requests' = Append(requests, Request("tools", FALSE, messages))
    /\ IF ok
       THEN /\ pc' = "toolStream"
            /\ hist' = [hist EXCEPT !.epoch = @ + 1]
            /\ UNCHANGED errorResponse
       ELSE /\ errorResponse' = IF ErrorShown(aborted) THEN ErrorChunk
                                ELSE errorResponse
            /\ hist' = [hist EXCEPT !.epoch = @ + 1,
                                    !.raised = ErrorShown(aborted)]
            /\ pc' = "close"
    /\ UNCHANGED << hasOpenThinkBlock, fullResponse, excludeThinking,
                    decoderVars, thinkingLevel, aborted, abortReason, messages, runLocals,
                    result, fragLog, execLog, framesLeft >>

\* if (streamer.hasToolCalls()) push the follow-up AI message; loop again
LoopTail ==
    /\ pc = "loopTail"
    /\ messages' = IF hasToolCalls(toolCallChunks, accumulatedToolCalls)
                   THEN Append(messages,
                            buildAIMessage(fullResponse, toolCallChunks,
                                           accumulatedToolCalls))
                   ELSE messages
    /\ pc' = "loopHead"
    /\ UNCHANGED << streamerVars, excludeThinking, decoderVars,
                    thinkingLevel, aborted,
                    abortReason, runLocals, result, last, fragLog, requests,
                    execLog, hist, framesLeft >>

\* if (customModel.ollamaThinkingLevel && !abortController.signal.aborted)
\* run detectThinkingOnlyResponse; on a positive verdict recovery starts by
\* pushing the transcript as an assistant message and the recovery prompt.
\* The configured level is an input of the exchange.  Before this point it
\* goes only into the text of the system prompt and the think field of the
\* requests, neither of which is represented, so it is drawn here, where
\* run() first branches on it.
Detect(level) ==
    /\ pc = "detect"
    /\ thinkingLevel' = level
    /\ IF level # "none" /\ ~aborted
       THEN LET seen == [hist EXCEPT
                           !.detections = @ + 1,
                           !.detectedPending =
                               hasToolCalls(toolCallChunks,
                                            accumulatedToolCalls)]
            IN  IF detectThinkingOnlyResponse(fullResponse, level)
                THEN /\ messages' = messages
                           \o << Msg("assistant", fullResponse, << >>, "",
                                     << >>),
                                 RecoveryPrompt >>
                     /\ hist' = [seen EXCEPT !.preRepair = Some(fullResponse)]
                     /\ pc' = "recover"
                ELSE /\ pc' = "close"
                     /\ hist' = seen
                     /\ UNCHANGED messages
       ELSE /\ pc' = "close"
            /\ UNCHANGED << messages, hist >>
    /\ UNCHANGED << streamerVars, excludeThinking, decoderVars,
                    aborted, abortReason,
                    runLocals, result, last, fragLog, requests, execLog,
                    framesLeft >>

\* the recovery request offers the tools of the primary request
RecoveryRequestWithTools(msgs) == Request("recovery", TRUE, msgs)

\* client.stream(messages, {signal: abortController.signal})
RecoveryRequest(msgs) == Request("recovery", FALSE, msgs)

\* the catch block returns a streamer without the transcript
recoveryFallbackEmpty(currentContent) == << >>

\* catch (error) { return currentStreamer }: the transcript of the streamer
\* that run() goes on with
recoveryFallback(currentContent) == currentContent

\* the recovery content takes the place of the transcript
combinedContentRecoveryOnly(currentContent, rc) == rc

\* const combinedContent = currentContent + "\n\n" + recoveryContent
combinedContent(currentContent, rc) ==
    Cat(Cat(currentContent, << Run("ws", 2) >>), rc)

\* client.stream(messages, {signal}) of the recovery; an error is caught in
\* recoverFromThinkingOnlyResponse, which then returns the current streamer
RecoverRequest(ok) ==
    /\ pc = "recover"
    /\ requests' = Append(requests, RecoveryRequest(messages))
    /\ recoveryContent' = << >>
    /\ IF ok
       THEN /\ pc' = "recStream"
            /\ UNCHANGED << fullResponse, hist >>
       ELSE /\ pc' = "close"
            /\ fullResponse' = recoveryFallback(fullResponse)
            /\ hist' = [hist EXCEPT !.repair = "failed"]
    /\ UNCHANGED << hasOpenThinkBlock, errorResponse, toolCallChunks,
                    accumulatedToolCalls, excludeThinking, decoderVars,
                    thinkingLevel, aborted,
                    abortReason, messages, iteration, toolCalls, toolIdx,
                    result, last, fragLog, execLog, framesLeft >>

\* the texts of the items of type "text", concatenated
RECURSIVE TextItems(_)
TextItems(items) ==
    IF items = << >> THEN << >>
    ELSE Cat(IF items[1].type = "text" THEN items[1].text ELSE << >>,
             TextItems(Tail(items)))

\* the text the recovery loop takes from a chunk
chunkContent(c) ==
    IF c.ctype = "string" THEN c.content
    ELSE IF c.ctype = "array" THEN TextItems(c.items)
    ELSE << >>

\* one turn of the recovery loop: break when aborted, else accumulate and,
\* if the chunk had content, show the transcript with the recovery so far
RecoverChunk(c) ==
    /\ pc = "recStream"
    /\ framesLeft > 0
    /\ framesLeft' = framesLeft - 1
    /\ IF aborted
       THEN pc' = "recEnd" /\ UNCHANGED << recoveryContent, hist >>
       ELSE /\ pc' = pc
            /\ recoveryContent' = Cat(recoveryContent, chunkContent(c))
            /\ hist' = IF chunkContent(c) # << >>
                       THEN Shown(hist, combinedContent(fullResponse,
                                                        recoveryContent'))
                       ELSE hist
    /\ UNCHANGED << streamerVars, excludeThinking, decoderVars,
                    thinkingLevel, aborted,
                    abortReason, messages, iteration, toolCalls, toolIdx,
                    result, last, fragLog, requests, execLog >>

RecoverStreamEnd ==
    /\ pc = "recStream"
    /\ pc' = "recEnd"
    /\ UNCHANGED << streamerVars, excludeThinking, decoderVars,
                    thinkingLevel, aborted,
                    abortReason, messages, runLocals, result, last, fragLog,
                    requests, execLog, hist, framesLeft >>

\* recoveryContent.trim().length > 10
RecoveryAccepted(rc) == TLen(Trim(rc)) > 10

\* after the recovery loop: a sufficient recovery is combined with the
\* transcript in a new streamer (setContent), else the current one is kept
RecoverEnd ==
    /\ pc = "recEnd"
    /\ IF RecoveryAccepted(recoveryContent)
       THEN /\ hasOpenThinkBlock' = FALSE
            /\ fullResponse' = combinedContent(fullResponse, recoveryContent)
            /\ errorResponse' = << >>
            /\ toolCallChunks' = << >>
            /\ accumulatedToolCalls' = << >>
            /\ last' = [op |-> "setContent", chunk |-> NoChunk,
                        full |-> fullResponse, open |-> hasOpenThinkBlock]
            /\ hist' = Shown([hist EXCEPT !.repair = "accepted"],
                              fullResponse')
       ELSE /\ hist' = [hist EXCEPT !.repair = "discarded"]
            /\ UNCHANGED << streamerVars, last >>
    /\ pc' = "close"
    /\ UNCHANGED << excludeThinking, decoderVars,
                    thinkingLevel, aborted, abortReason,
                    messages, runLocals, result, fragLog, requests, execLog,
                    framesLeft >>

\* the values of abortController.signal.reason
AbortReasons == {"new_chat", "user_stopped"}

\* const result = streamer.close(), which shows the closed transcript; for
\* an abort whose reason is ABORT_REASON.NEW_CHAT "" is shown and returned,
\* else result.content is returned
Close(reason) ==
    /\ pc = "close"
    /\ abortReason' = IF aborted THEN reason ELSE "none"
    /\ fullResponse' = closeContent(hasOpenThinkBlock, fullResponse,
                                    errorResponse)
    /\ result' = IF aborted /\ reason = "new_chat" THEN << >>
                 ELSE fullResponse'
    /\ last' = [op |-> "close", chunk |-> NoChunk, full |-> fullResponse,
                open |-> hasOpenThinkBlock]
    /\ hist' = Shown(hist, result')
    /\ pc' = "done"
    /\ UNCHANGED << hasOpenThinkBlock, errorResponse, toolCallChunks,
                    accumulatedToolCalls, excludeThinking, decoderVars,
                    thinkingLevel,
                    aborted, messages, runLocals, fragLog,
                    requests, execLog, framesLeft >>

\* the positions at which run() is suspended at an await: before the first
\* response and before the response of the recovery, in a `for await` over a
\* stream, in the call of a tool
Awaiting ==
    {"start", "stream", "toolStream", "recover", "recStream", "execWait"}

\* the user aborts the exchange (abortController.abort(reason)); the event
\* handler that does so runs only while run() is suspended.  Nothing reads
\* the reason before the end of run(), so it is drawn there
Abort ==
    /\ pc \in Awaiting
    /\ ~aborted
    /\ aborted' = TRUE
    /\ UNCHANGED << streamerVars, excludeThinking, decoderVars,
                    pc, thinkingLevel,
                    abortReason, messages, runLocals, result, last, fragLog,
                    requests, execLog, hist, framesLeft >>

Next ==
    \/ \E ok \in BOOLEAN : StartStream(ok)
    \/ \E c \in NativeFrames : StreamChunk(c)
    \/ StreamEnd
    \/ CheckTools
    \/ LoopHead
    \/ StartTool
    \/ \E throws \in BOOLEAN : FinishTool(throws)
    \/ \E ok \in BOOLEAN : Resubmit(ok)
    \/ LoopTail
    \/ \E level \in Levels : Detect(level)
    \/ \E ok \in BOOLEAN : RecoverRequest(ok)
    \/ \E c \in RecoveryFrames : RecoverChunk(c)
    \/ RecoverStreamEnd
    \/ RecoverEnd
    \/ \E reason \in AbortReasons : Close(reason)
    \/ Abort

Spec == Init /\ [][Next]_vars

-----------------------------------------------------------------------------
(* A ThinkBlockStreamer driven directly: any sequence of calls of its      *)
(* public methods, with chunks in every encoding processChunk knows        *)

\* reasoning and answer texts of the chunks
R == Run("rsn", RsnShort)
A == Run("ans", AnsLen)
W == Run("ws", 1)

Item(type, txt) == [type |-> type, text |-> txt]

StringContents ==
    { << A >>, << W >>,
      << MOPEN, R, MCLOSE >>,            \* thinking only
      << MOPEN, R, MCLOSE, A >>,         \* thinking, then the answer
      << MOPEN, R, MCLOSE, W >>,         \* thinking, then a blank
      << A, MOPEN, R, MCLOSE, A >>,      \* text on both sides
      << MOPEN, A >> }                   \* an opening marker with no closing

ArrayContents ==
    { << Item("thinking", << R >>) >>,
      << Item("text", << A >>) >>,
      << Item("thinking", << R >>), Item("text", << A >>) >>,
      << Item("text", << A >>), Item("thinking", << R >>) >> }

\* fragments of tool calls, as a LangChain provider streams them
FragmentLists ==
    { << Fragment(0, "c1", << "web_" >>, << "{" >>) >>,
      << Fragment(0, "", << "search" >>, << "q", "}" >>) >>,
      << Fragment(-1, "", << >>, << "}" >>) >>,
      << Fragment(1, "c2", << "web_fetch" >>, << >>) >>,
      << Fragment(1, "", << >>, << "{", "u" >>),
         Fragment(0, "c3", << "web_" >>, << >>) >> }

StreamerFrames ==
    { Plain(c) : c \in StringContents }
    \cup { Chunk("array", << >>, items, 0, 0, 0, FALSE, << >>) :
             items \in ArrayContents }
    \cup { Chunk(ct, c, << >>, RsnShort, 0, 0, FALSE, << >>) :
             ct \in {"string"}, c \in {<< >>, << A >>} }
    \cup { Chunk(ct, c, << >>, 0, RsnShort, 0, FALSE, << >>) :
             ct \in {"string"}, c \in {<< >>, << A >>} }
    \cup { Chunk("string", << >>, << >>, 0, 0, RsnShort, FALSE, << >>),
           Chunk("string", << A >>, << >>, 0, 0, 0, TRUE, << >>),
           Chunk("none", << >>, << >>, 0, 0, 0, FALSE, << >>) }

\* chunks that carry tool-call fragments only, some with an answer text
FragmentFrames ==
    { Chunk("string", c, << >>, 0, 0, 0, FALSE, tcs) :
        c \in {<< >>}, tcs \in FragmentLists }
    \cup { Chunk("string", << A >>, << >>, 0, 0, 0, FALSE, << >>) }

\* run() idle at position at, with a budget of inputs
IdleRun(at, budget) ==
    /\ excludeThinking \in BOOLEAN
    /\ pc = at
    /\ thinkingLevel = "unread"
    /\ aborted = FALSE
    /\ abortReason = "none"
    /\ messages = << >>
    /\ iteration = 0
    /\ toolCalls = << >>
    /\ toolIdx = 0
    /\ recoveryContent = << >>
    /\ result = << >>
    /\ last = NoLast
    /\ fragLog = << >>
    /\ requests = << >>
    /\ execLog = << >>
    /\ hist = NoHist
    /\ framesLeft = budget
    /\ IdleDecoder

\* a component driven on its own, from position at, with a budget of inputs
InitAt(at, budget) == FreshStreamer /\ IdleRun(at, budget)

DirectInit(budget) == InitAt("direct", budget)

InitStreamer == DirectInit(MaxChunks)

InitAccumulator == DirectInit(MaxFragmentFrames)

\* everything but the streamer, the histories and the frame budget
runnerVars == << excludeThinking, decoderVars, pc, thinkingLevel, aborted,
                 abortReason, messages, runLocals, result, requests,
                 execLog >>

\* streamer.processChunk(c)
ProcessChunk(c) ==
    /\ pc = "direct"
    /\ framesLeft > 0
    /\ framesLeft' = framesLeft - 1
    /\ DoProcessChunk(c)
    /\ UNCHANGED runnerVars

\* streamer.clearToolCalls()
ClearToolCalls ==
    /\ pc = "direct"
    /\ hist.epoch < MaxClears
    /\ DoClearToolCalls
    /\ hist' = [hist EXCEPT !.epoch = @ + 1]
    /\ UNCHANGED << hasOpenThinkBlock, fullResponse, errorResponse, fragLog,
                    framesLeft >>
    /\ UNCHANGED runnerVars

\* streamer.setToolCalls(toolCalls)
SetToolCalls(tcs) ==
    /\ pc = "direct"
    /\ accumulatedToolCalls # tcs
    /\ accumulatedToolCalls' = tcs
    /\ last' = [op |-> "setToolCalls", chunk |-> NoChunk,
                full |-> fullResponse, open |-> hasOpenThinkBlock]
    /\ UNCHANGED << hasOpenThinkBlock, fullResponse, errorResponse,
                    toolCallChunks, fragLog, hist, framesLeft >>
    /\ UNCHANGED runnerVars

\* streamer.close(); the streamer is not used after it
CloseStreamer ==
    /\ pc = "direct"
    /\ fullResponse' = closeContent(hasOpenThinkBlock, fullResponse,
                                    errorResponse)
    /\ result' = fullResponse'
    /\ last' = [op |-> "close", chunk |-> NoChunk, full |-> fullResponse,
                open |-> hasOpenThinkBlock]
    /\ hist' = Shown(hist, fullResponse')
    /\ pc' = "closed"
    /\ UNCHANGED << hasOpenThinkBlock, errorResponse, toolCallChunks,
                    accumulatedToolCalls, excludeThinking, decoderVars,
                    thinkingLevel,
                    aborted, abortReason, messages, runLocals, fragLog,
                    requests, execLog, framesLeft >>

PresetCalls ==
    << [id |-> "p1", name |-> << "web_search" >>, argsText |-> << "{", "q", "}" >>,
        args |-> ParseArgs(<< "{", "q", "}" >>), idx |-> 0] >>

\* the classifier: chunks of every encoding, then close()
NextStreamer ==
    \/ \E c \in StreamerFrames : ProcessChunk(c)
    \/ CloseStreamer

SpecStreamer == InitStreamer /\ [][NextStreamer]_vars

\* the accumulator: chunks with tool-call fragments, setToolCalls,
\* clearToolCalls
NextAccumulator ==
    \/ \E c \in FragmentFrames : ProcessChunk(c)
    \/ ClearToolCalls
    \/ \E tcs \in {PresetCalls} : SetToolCalls(tcs)

SpecAccumulator == InitAccumulator /\ [][NextAccumulator]_vars

-----------------------------------------------------------------------------
(* The detection of run() applied to transcripts of chosen lengths: blanks, *)
(* one closed reasoning block, answer text                                  *)

PadLengths == {0, 20, 40, 60}

ReasoningLengths == {100, 200, 201, 350, 351, 500, 501, 600}

AnswerLengths == {0, 40, 49, 50, 74, 75, 99, 100, 500}

\* w blanks, a block of r reasoning characters, a characters of answer
Transcript(w, r, a) ==
    Cat(Cat(Str("ws", w), << NL, OPEN, Run("rsn", r), CLOSE >>), Str("ans", a))

\* the values the level can have: those of the type, none, and another text
AnyLevels == Levels \cup {"max"}

InitHeuristic ==
    /\ IdleRun("detect", 0)
    /\ ~excludeThinking
    /\ hasOpenThinkBlock = FALSE
    /\ fullResponse \in { Transcript(w, r, a) :
                            w \in PadLengths, r \in ReasoningLengths,
                            a \in AnswerLengths }
    /\ errorResponse = << >>
    /\ toolCallChunks = << >>
    /\ accumulatedToolCalls = << >>

NextHeuristic == \E level \in AnyLevels : Detect(level)

SpecHeuristic == InitHeuristic /\ [][NextHeuristic]_vars

-----------------------------------------------------------------------------
(* NativeOllamaClient.stream: the request and the decoder of the response  *)
(* body.  The body is a text over atoms: "{" and "}" are the braces of a   *)
(* JSON object, "\n" is the newline, " " is a blank, "c:a" is a message    *)
(* whose content is answer text, "c:m" a message whose content is a        *)
(* <THINKING> pair, "t:s" a message whose tool_calls hold one call of     *)
(* web_search, "t:f" one whose tool_calls hold one call of web_fetch,      *)
(* "done" is done: true, and "junk" is text that is no JSON.               *)

LF == "\n"

\* position of the first newline of s at or after position i, 0 if none
RECURSIVE NextLF(_, _)
NextLF(s, i) ==
    IF i > Len(s) THEN 0
    ELSE IF s[i] = LF THEN i ELSE NextLF(s, i + 1)

\* s.split("\n"): the segments between the newlines, at least one
RECURSIVE Split(_)
Split(s) ==
    LET p == NextLF(s, 1)
    IN  IF p = 0 THEN << s >>
        ELSE << SubSeq(s, 1, p - 1) >> \o Split(SubSeq(s, p + 1, Len(s)))

\* line.trim()
RECURSIVE TrimBlanks(_)
TrimBlanks(line) ==
    IF line = << >> THEN line
    ELSE IF line[1] = " " THEN TrimBlanks(Tail(line))
    ELSE IF line[Len(line)] = " "
         THEN TrimBlanks(SubSeq(line, 1, Len(line) - 1))
         ELSE line

\* the members a frame can have
FieldAtoms == {"c:a", "c:m", "t:s", "t:f", "done"}

\* JSON.parse(line): a line parses when it is one object of known members
JSONparse(line) ==
    LET t == TrimBlanks(line)
    IN  IF /\ Len(t) >= 2
           /\ t[1] = "{"
           /\ t[Len(t)] = "}"
           /\ \A i \in 2 .. Len(t) - 1 : t[i] \in FieldAtoms
        THEN [ok |-> TRUE, fields |-> { t[i] : i \in 2 .. Len(t) - 1 }]
        ELSE [ok |-> FALSE, fields |-> {}]

\* the chunk is built with an empty content whatever the frame holds
MessageContentEmpty(json) == << >>

\* json.message?.content || ""
MessageContent(json) ==
    IF "c:a" \in json.fields THEN << Run("ans", AnsLen) >>
    ELSE IF "c:m" \in json.fields THEN Marked(RsnShort)
    ELSE << >>

\* json.message?.tool_calls mapped to tool call chunks
MessageToolCalls(json) ==
    IF "t:s" \in json.fields
    THEN << NativeCall(0, "c1", "web_search", "q") >>
    ELSE IF "t:f" \in json.fields
         THEN << NativeCall(0, "c2", "web_fetch", "u") >>
         ELSE << >>

\* new AIMessageChunk({content, additional_kwargs, tool_call_chunks})
FrameChunk(json) ==
    Chunk("string", MessageContent(json), << >>, 0, 0, 0, FALSE,
          MessageToolCalls(json))

\* what the body of the for-of loop does with a line: "blank" (continue),
\* "malformed" (JSON.parse throws, the catch logs it), "done" (break) or
\* "frame" (yield)
LineVerdict(line) ==
    IF TrimBlanks(line) = << >> THEN "blank"
    ELSE IF ~JSONparse(line).ok THEN "malformed"
    ELSE IF "done" \in JSONparse(line).fields THEN "done"
    ELSE "frame"

\* a line that fails to parse ends the for-of loop as a done line does
RestAfterFault(verdict, ls) ==
    IF verdict \in {"done", "malformed"} THEN << >> ELSE Tail(ls)

\* the lines the for-of loop goes on with: none after the break of a done
\* line, the following ones after any other line
RestAfter(verdict, ls) == IF verdict = "done" THEN << >> ELSE Tail(ls)

\* what requestUrl resolves to: the status, the body text (an error text,
\* or "ndjson" for a body of lines that reader.read() then delivers) and
\* whether the text includes '"thinking":'
RequestUrlResult(status, text, thinking) ==
    [status |-> status, text |-> text, thinking |-> thinking]

\* ollamaAwareFetch: a Response built from the transformed text when the
\* url names ollama and the text includes '"thinking":', else the result of
\* requestUrl itself, whose text is a string and which has no ok and no body
ollamaAwareFetch(isOllama, res) ==
    IF isOllama /\ res.text # "" /\ res.thinking
    THEN [standard |-> TRUE, status |-> res.status, text |-> res.text]
    ELSE [standard |-> FALSE, status |-> res.status, text |-> res.text]

\* response.ok
ResponseOk(r) == r.standard /\ r.status \in 200 .. 299

\* new Error(`Ollama API error (${response.status}): ${errorText}`)
APIError(status, text) ==
    [name |-> "Ollama API error", status |-> status, text |-> text]

\* response.text is not a function
TypeError == [name |-> "TypeError", status |-> 0, text |-> ""]

\* reads of the body in one stream
MaxReads == 3

\* the results requestUrl can have
RequestUrlResults ==
    { RequestUrlResult(200, "ndjson", th) : th \in BOOLEAN }
    \cup { RequestUrlResult(st, tx, th) :
             st \in {401, 500}, tx \in {"Unauthorized", ""}, th \in BOOLEAN }

FrameLine(field) == << "{", field, "}", LF >>

\* the values reader.read() can return: whole lines, several lines, parts of
\* a line
ReadValues ==
    { FrameLine("c:a"), FrameLine("c:m"), FrameLine("done"),
      << "{", "junk", LF >>,
      << " ", LF >>,
      << "{", "c:a" >>,
      << "}", LF >>,
      << "{", "c:m", "}" >>,
      << "{", "c:a", "done", "}", LF >>,
      FrameLine("c:a") \o << "{", "junk", LF >> \o FrameLine("c:m"),
      FrameLine("c:m") \o FrameLine("done") \o FrameLine("c:a") }

InitDecoder == InitAt("fetch", MaxReads) /\ ~excludeThinking

exchangeVars == << streamerVars, excludeThinking, thinkingLevel, aborted,
                   abortReason, messages, runLocals, result, last, fragLog,
                   requests, execLog, hist >>

\* const response = await ollamaAwareFetch(...); if (!response.ok) throw
Fetch(isOllama, res) ==
    /\ pc = "fetch"
    /\ response' = ollamaAwareFetch(isOllama, res)
    /\ IF ResponseOk(response')
       THEN pc' = "read" /\ thrown' = thrown
       ELSE /\ pc' = "thrown"
            /\ thrown' = IF response'.standard
                         THEN APIError(response'.status, response'.text)
                         ELSE TypeError
    /\ UNCHANGED << exchangeVars, framesLeft, buffer, lines, yielded,
                    received, decoded >>

\* const {done, value} = await reader.read() with done false: the value is
\* added to the buffer, the buffer is split, the last segment is kept
Read(value) ==
    /\ pc = "read"
    /\ framesLeft > 0
    /\ framesLeft' = framesLeft - 1
    /\ LET segs == Split(buffer \o value)
       IN  /\ lines' = SubSeq(segs, 1, Len(segs) - 1)
           /\ buffer' = segs[Len(segs)]
    /\ received' = Append(received, value)
    /\ pc' = IF lines' = << >> THEN "read" ELSE "lines"
    /\ UNCHANGED << exchangeVars, response, yielded, thrown, decoded >>

\* reader.read() returns done: the generator returns
ReadDone ==
    /\ pc = "read"
    /\ pc' = "returned"
    /\ UNCHANGED << exchangeVars, framesLeft, decoderVars >>

\* one turn of for (const line of lines)
Line ==
    /\ pc = "lines"
    /\ LET line == Head(lines)
           verdict == LineVerdict(line)
       IN  /\ yielded' = IF verdict = "frame"
                         THEN Append(yielded, FrameChunk(JSONparse(line)))
                         ELSE yielded
           /\ lines' = RestAfter(verdict, lines)
           /\ decoded' = Append(decoded, verdict)
    /\ pc' = IF lines' = << >> THEN "read" ELSE "lines"
    /\ UNCHANGED << exchangeVars, framesLeft, response, buffer, thrown,
                    received >>

NextDecoder ==
    \/ \E isOllama \in BOOLEAN, res \in RequestUrlResults : Fetch(isOllama, res)
    \/ \E value \in ReadValues : Read(value)
    \/ ReadDone
    \/ Line

SpecDecoder == InitDecoder /\ [][NextDecoder]_vars

-----------------------------------------------------------------------------
(* Text relations used to state the properties *)

\* the first n characters of s
RECURSIVE TakeLeft(_, _)
TakeLeft(s, n) ==
    IF n <= 0 \/ s = << >> THEN << >>
    ELSE IF s[1].n <= n THEN << s[1] >> \o TakeLeft(Tail(s), n - s[1].n)
    ELSE << Run(s[1].k, n) >>

\* s without its first n characters
RECURSIVE DropLeft(_, _)
DropLeft(s, n) ==
    IF n <= 0 \/ s = << >> THEN s
    ELSE IF s[1].n <= n THEN DropLeft(Tail(s), n - s[1].n)
    ELSE << Run(s[1].k, s[1].n - n) >> \o Tail(s)

StartsWith(s, p) == TLen(p) <= TLen(s) /\ TakeLeft(s, TLen(p)) = p

EndsWith(s, p) == TLen(p) <= TLen(s) /\ DropLeft(s, TLen(s) - TLen(p)) = p

\* s without its last n characters
DropRight(s, n) == TakeLeft(s, TLen(s) - n)

RECURSIVE Count(_, _)
Count(s, k) ==
    IF s = << >> THEN 0
    ELSE (IF s[1].k = k THEN 1 ELSE 0) + Count(Tail(s), k)

\* reasoning blocks of s that are opened and not closed
Depth(s) == Count(s, "open") - Count(s, "close")

\* the run at position i of s lies inside a reasoning block
InBlock(s, i) == Depth(SubSeq(s, 1, i - 1)) > 0

-----------------------------------------------------------------------------
(* C1 *)

\* processChunk has just processed a chunk whose string content holds a
\* <THINKING>...</THINKING> pair followed by answer text
C1_Case ==
    /\ last.op = "processChunk"
    /\ last.chunk.ctype = "string"
    /\ ThinkingMatch(last.chunk.content).from # 0
    /\ Trim(RemainingContent(last.chunk.content)) # << >>

\* the transcript ends with the enclosed reasoning text, </think>, and the
\* answer text; the reasoning text sits in a block opened before it, nothing
\* of the earlier transcript is lost and no block is left open
C1_Post ==
    LET content == last.chunk.content
        tail == Cat(ThinkingText(content),
                    Cat(<< CLOSE >>, RemainingContent(content)))
        head == DropRight(fullResponse, TLen(tail))
    IN  /\ EndsWith(fullResponse, tail)
        /\ Depth(head) = 1
        /\ StartsWith(head, last.full)
        /\ Depth(fullResponse) = 0
        /\ ~hasOpenThinkBlock

-----------------------------------------------------------------------------
(* C2 *)

\* an exchange that has ended with a reasoning level configured, no tool
\* calls, no cancellation, no error, and frames that carried more reasoning
\* characters than the level's minimum and no answer text at all
C2_Case ==
    /\ pc = "done"
    /\ thinkingLevel \in {"low", "medium", "high"}
    /\ ~aborted
    /\ ~hist.raised
    /\ fragLog = << >>
    /\ hist.ansIn = 0
    /\ hist.rsnIn > minThinkingChars(thinkingLevel)

\* C2 as claimed: a turn with a reasoning level configured, no tool calls and
\* no cancellation, whose frames carry only reasoning text (more than the
\* level's minimum) and no answer text, is detected as reasoning-only and a
\* repair request is issued.
C2_ReasoningOnlyRepaired ==
    C2_Case => \E i \in 1 .. Len(requests) : requests[i].kind = "recovery"

-----------------------------------------------------------------------------
(* C3 *)

\* at no point of the transcript is more than one reasoning block open
C3_OneBlock ==
    \A i \in 0 .. Len(fullResponse) :
        Depth(SubSeq(fullResponse, 1, i)) \in {0, 1}

\* C3 as claimed: for any sequence of frames in any mix of the encodings, at
\* most one reasoning block is open, and answer text is never appended to
\* the transcript while a block is open (the block is closed first), so no
\* answer text of the transcript lies inside a reasoning block.
C3_AnswerOutsideBlocks ==
    /\ C3_OneBlock
    /\ hasOpenThinkBlock => Depth(fullResponse) = 1
    /\ \A i \in 1 .. Len(fullResponse) :
           fullResponse[i].k = "ans" => ~InBlock(fullResponse, i)

-----------------------------------------------------------------------------
(* C4 *)

\* C4 as claimed: the text returned for an exchange never contains an
\* unclosed reasoning block, on whichever path the exchange ended.
C4_NoUnclosedBlock ==
    pc = "done" => Depth(result) = 0

-----------------------------------------------------------------------------
(* C5 *)

\* the rounds of tool execution begun so far: the rounds named in the log of
\* started tool calls
Rounds == { execLog[i].round : i \in 1 .. Len(execLog) }

\* the resubmitted requests issued so far
ToolRequests == { i \in 1 .. Len(requests) : requests[i].kind = "tools" }

\* C5: the tool loop performs at most 3 rounds of tool execution in one
\* exchange, however often the upstream keeps emitting tool calls: no tool
\* call is started in a round beyond the third and at most 3 requests are
\* resubmitted.
C5_AtMostThreeRounds ==
    /\ iteration <= 3
    /\ Cardinality(Rounds) <= 3
    /\ \A r \in Rounds : r <= 3
    /\ Cardinality(ToolRequests) <= 3

\* the loop has left after its third round although the upstream emitted
\* tool calls again
C5_Witness ==
    /\ pc = "detect"
    /\ Rounds = {1, 2, 3}
    /\ Cardinality(ToolRequests) = 3
    /\ hasToolCalls(toolCallChunks, accumulatedToolCalls)

-----------------------------------------------------------------------------
(* C6 *)

\* the loop was left at the iteration ceiling with tool calls pending, none
\* of which was or is being executed, and no error was raised since
C6_Left ==
    /\ iteration = 3
    /\ pc \in {"detect", "recover", "recStream", "recEnd", "close", "done"}
    /\ ~hist.raised
    /\ errorResponse = << >>
    /\ \A i \in 1 .. Len(execLog) : execLog[i].epoch < hist.epoch

\* C6 as claimed: when the iteration ceiling is reached while tool calls are
\* pending, the exchange terminates without raising an error and returns the
\* transcript accumulated so far; the pending calls are not executed.
C6_Original ==
    hist.ceiling.set =>
        /\ C6_Left
        /\ pc = "done" => StartsWith(result, hist.ceiling.text)

\* C6 amended: the same, but an exchange that was cancelled with the
\* new-chat reason returns the empty text; in every other case the returned
\* text begins with the transcript accumulated up to the ceiling.
C6_CeilingReturnsTranscript ==
    hist.ceiling.set =>
        /\ C6_Left
        /\ pc = "done" =>
              IF aborted /\ abortReason = "new_chat"
              THEN result = << >>
              ELSE StartsWith(result, hist.ceiling.text)

\* an exchange has returned a non-empty transcript after the ceiling was
\* reached with tool calls pending
C6_Witness ==
    /\ hist.ceiling.set
    /\ hist.ceiling.text # << >>
    /\ pc = "done"
    /\ hasToolCalls(toolCallChunks, accumulatedToolCalls)
    /\ StartsWith(result, hist.ceiling.text)

-----------------------------------------------------------------------------
(* C7 *)

\* position in messages of the AI message that opened the current round
RoundStart == Len(messages) - (toolIdx - 1)

\* the names of the tools the loop knows
KnownTools == { << "web_search" >>, << "web_fetch" >> }

\* C7: in a tool round, the messages appended since the AI message that
\* carries the finalized calls are exactly one tool result per call handled
\* so far, in the order of the calls, each with the id and the name of its
\* call; the result of an unknown tool or of a tool that threw is an error
\* payload, no error is raised, and the loop goes on to the remaining calls.
C7_OneResultPerCall ==
    pc \in {"exec", "execWait"} =>
        /\ RoundStart >= 1
        /\ messages[RoundStart].role = "ai"
        /\ messages[RoundStart].tool_calls = toolCalls
        /\ toolIdx - 1 <= Len(toolCalls)
        /\ \A j \in 1 .. toolIdx - 1 :
              LET m == messages[RoundStart + j]
              IN  /\ m.role = "tool"
                  /\ m.tool_call_id = toolCalls[j].id
                  /\ m.name = toolCalls[j].name
                  /\ m.content \in {"payload", "error: Tool execution failed",
                                    "error: Unknown tool"}
                  /\ toolCalls[j].name \notin KnownTools
                        => m.content = "error: Unknown tool"
        /\ ~hist.raised
        /\ pc = "exec" /\ toolIdx <= Len(toolCalls) => ENABLED StartTool

\* a round is through in which the first call threw and the second named an
\* unknown tool: both have their error result, in order
C7_Witness ==
    /\ pc = "exec"
    /\ Len(toolCalls) = 2
    /\ toolIdx = 3
    /\ messages[RoundStart + 1].content = "error: Tool execution failed"
    /\ messages[RoundStart + 1].tool_call_id = "c1"
    /\ messages[RoundStart + 2].content = "error: Unknown tool"
    /\ messages[RoundStart + 2].name = << "lookup" >>

-----------------------------------------------------------------------------
(* C8 *)

\* position of the last AI message among the first n messages, 0 if none
RECURSIVE LastAI(_)
LastAI(n) ==
    IF n = 0 THEN 0
    ELSE IF messages[n].role = "ai" THEN n ELSE LastAI(n - 1)

\* the tool calls started in round r, in the order they were started
RECURSIVE StartedIn(_, _)
StartedIn(r, n) ==
    IF n = 0 THEN << >>
    ELSE IF execLog[n].round = r
         THEN Append(StartedIn(r, n - 1), execLog[n].pos)
         ELSE StartedIn(r, n - 1)

\* C8: the tool executions of a round are strictly sequential, in the order
\* of the calls: while call k is running, calls 1 .. k and no other were
\* started in the round and exactly the results of calls 1 .. k-1 were
\* appended; and every resubmitted request was issued when the conversation
\* ended with the AI message of the round followed by one result for each of
\* its calls.
C8_Sequential ==
    /\ pc \in {"exec", "execWait"} =>
          /\ StartedIn(iteration, Len(execLog))
                = [k \in 1 .. (IF pc = "execWait" THEN toolIdx ELSE toolIdx - 1)
                     |-> k]
          /\ LastAI(Len(messages)) = RoundStart
    /\ \A i \in ToolRequests :
          LET n == requests[i].nmsg
              a == LastAI(n)
          IN  /\ a >= 1
              /\ n - a = Len(messages[a].tool_calls)
              /\ \A j \in a + 1 .. n : messages[j].role = "tool"

\* the second call of a round is running: the first has its result, and a
\* request was resubmitted after an earlier round of two calls
C8_Witness ==
    /\ pc = "execWait"
    /\ toolIdx = 2
    /\ iteration = 2
    /\ messages[Len(messages)].role = "tool"
    /\ messages[Len(messages)].tool_call_id = toolCalls[1].id
    /\ ToolRequests # {}

-----------------------------------------------------------------------------
(* C9 *)

\* the tool-call fragments of the first n logged that arrived in stream e
\* (the primary stream is stream 0, the stream after round r is stream r)
RECURSIVE FragsOf(_, _)
FragsOf(e, n) ==
    IF n = 0 THEN << >>
    ELSE IF fragLog[n].epoch = e
         THEN Append(FragsOf(e, n - 1), fragLog[n].frag)
         ELSE FragsOf(e, n - 1)

\* the chunk map that the fragments of stream e alone build up
ChunksOf(e) == handleToolCallChunks(<< >>, FragsOf(e, Len(fragLog)))

\* C9: after clearToolCalls() the accumulator reports no tool calls and an
\* empty call list; the loop clears it before every resubmitted stream, so
\* during and after stream r the accumulator holds what the fragments of
\* stream r alone build up: a stream without fragments ends with
\* hasToolCalls() false, and a tool call that is being executed is a call of
\* the latest stream, never one of an earlier stream again.
C9_ClearedBetweenRounds ==
    /\ last.op = "clearToolCalls" =>
          /\ ~hasToolCalls(toolCallChunks, accumulatedToolCalls)
          /\ getToolCalls(toolCallChunks, accumulatedToolCalls) = << >>
    /\ pc \in {"stream", "toolStream", "checkTools", "loopTail", "loopHead"} =>
          toolCallChunks = ChunksOf(hist.epoch)
    /\ pc = "loopTail" /\ FragsOf(hist.epoch, Len(fragLog)) = << >> =>
          ~hasToolCalls(toolCallChunks, accumulatedToolCalls)
    /\ pc = "execWait" =>
          \E calls \in { buildToolCallsFromChunks(ChunksOf(hist.epoch)) } :
              LET e == execLog[Len(execLog)]
              IN  /\ e.round = iteration
                  /\ e.epoch = iteration - 1
                  /\ hist.epoch = iteration - 1
                  /\ e.pos = toolIdx
                  /\ e.pos <= Len(calls)
                  /\ e.call = calls[e.pos]

\* a resubmitted stream has ended without tool-call fragments after a round
\* that executed calls: the accumulator reports none
C9_Witness ==
    /\ pc = "loopTail"
    /\ hist.epoch = 1
    /\ Len(execLog) = 2
    /\ FragsOf(1, Len(fragLog)) = << >>
    /\ ~aborted
    /\ ~hasToolCalls(toolCallChunks, accumulatedToolCalls)

-----------------------------------------------------------------------------
(* C10 *)

\* the key under which the accumulator files a fragment
KeyOf(frag) == IF frag.index < 0 THEN 0 ELSE frag.index

\* the fragments of the current stream, in arrival order
Arrived == FragsOf(hist.epoch, Len(fragLog))

\* the names, and the argument texts, of the first n arrived fragments of
\* key x, concatenated in arrival order
RECURSIVE NameOf(_, _)
NameOf(x, n) ==
    IF n = 0 THEN << >>
    ELSE NameOf(x, n - 1)
         \o (IF KeyOf(Arrived[n]) = x THEN Arrived[n].name ELSE << >>)

RECURSIVE ArgsOf(_, _)
ArgsOf(x, n) ==
    IF n = 0 THEN << >>
    ELSE ArgsOf(x, n - 1)
         \o (IF KeyOf(Arrived[n]) = x THEN Arrived[n].args ELSE << >>)

\* C10: however the fragments of one index are split across frames, the
\* accumulator finalizes exactly one tool call for the index, and the name
\* and the argument text of the call are the concatenations of the names and
\* of the argument texts of those fragments in arrival order.
C10_OneCallPerIndex ==
    accumulatedToolCalls = << >> =>
        LET calls == getToolCalls(toolCallChunks, accumulatedToolCalls)
            keys == { KeyOf(Arrived[n]) : n \in 1 .. Len(Arrived) }
        IN  /\ Len(calls) = Cardinality(keys)
            /\ \A x \in keys :
                  /\ Cardinality({ i \in 1 .. Len(calls) : calls[i].idx = x }) = 1
                  /\ \A i \in 1 .. Len(calls) :
                        calls[i].idx = x =>
                            /\ calls[i].name = NameOf(x, Len(Arrived))
                            /\ calls[i].argsText = ArgsOf(x, Len(Arrived))

\* two frames have each brought one fragment of the call of index 0: its
\* name and its argument object are whole
C10_Witness ==
    /\ accumulatedToolCalls = << >>
    /\ Len(Arrived) = 2
    /\ \A n \in 1 .. 2 : KeyOf(Arrived[n]) = 0
    /\ LET calls == getToolCalls(toolCallChunks, accumulatedToolCalls)
       IN  /\ Len(calls) = 1
           /\ calls[1].name = << "web_", "search" >>
           /\ calls[1].argsText = << "{", "q", "}" >>
           /\ calls[1].args = [ok |-> TRUE, pairs |-> << "q" >>]

-----------------------------------------------------------------------------
(* Relations on the body of a response, used to state C11 to C13 *)

\* the read values, concatenated
RECURSIVE Flatten(_)
Flatten(vs) == IF vs = << >> THEN << >> ELSE Head(vs) \o Flatten(Tail(vs))

\* the newline-terminated lines of the text received so far
CompleteLines ==
    LET segs == Split(Flatten(received)) IN SubSeq(segs, 1, Len(segs) - 1)

\* the text received after the last newline
Unterminated ==
    LET segs == Split(Flatten(received)) IN segs[Len(segs)]

\* the lines that are a frame with a message, and those that are a frame
\* with done: true
FrameLines == { << "{", "c:a", "}" >>, << "{", "c:m", "}" >> }

DoneLines == { << "{", "done", "}" >>, << "{", "c:a", "done", "}" >> }

IsFrame(l) == TrimBlanks(l) \in FrameLines

IsDone(l) == TrimBlanks(l) \in DoneLines

IsMalformed(l) == TrimBlanks(l) # << >> /\ ~IsFrame(l) /\ ~IsDone(l)

\* the chunk that carries the message content of a frame line
Wanted(l) ==
    IF TrimBlanks(l) = << "{", "c:a", "}" >>
    THEN Plain(<< Run("ans", AnsLen) >>)
    ELSE Plain(Marked(RsnShort))

\* the chunks of the frame lines among ls, in order
RECURSIVE FramesAmong(_)
FramesAmong(ls) ==
    IF ls = << >> THEN << >>
    ELSE (IF IsFrame(Head(ls)) THEN << Wanted(Head(ls)) >> ELSE << >>)
         \o FramesAmong(Tail(ls))

Decoding == pc \in {"read", "lines", "returned"}

-----------------------------------------------------------------------------
(* C11 *)

\* C11: the decoder is line-fault-tolerant: no line makes stream() raise,
\* and, as long as the body holds no done line, the chunks yielded are those
\* of all the frame lines received, in their order, whatever malformed lines
\* stand between them (in the middle of the for-of loop: those of the lines
\* taken up so far, the lines after a malformed one being still to come).
C11_LineFaultTolerant ==
    Decoding =>
        /\ thrown = NoError
        /\ (\A i \in 1 .. Len(CompleteLines) : ~IsDone(CompleteLines[i]))
              => yielded \o FramesAmong(lines) = FramesAmong(CompleteLines)

\* a body with a malformed line between two frame lines was decoded to its
\* end: the two frames were yielded
C11_Witness ==
    /\ pc = "returned"
    /\ \E i, j, k \in 1 .. Len(CompleteLines) :
          /\ i < j /\ j < k
          /\ IsFrame(CompleteLines[i])
          /\ IsMalformed(CompleteLines[j])
          /\ IsFrame(CompleteLines[k])
    /\ \A i \in 1 .. Len(CompleteLines) : ~IsDone(CompleteLines[i])
    /\ yielded = FramesAmong(CompleteLines)
    /\ Len(yielded) >= 2

-----------------------------------------------------------------------------
(* C12 *)

\* C12 as claimed: a done frame ends the frame sequence: once a done frame
\* was decoded, no line taken up later is yielded as a frame, whether it
\* arrived in the same read or in a later one.
C12_DoneEndsSequence ==
    \A i, j \in 1 .. Len(decoded) :
        i < j /\ decoded[i] = "done" => decoded[j] # "frame"

-----------------------------------------------------------------------------
(* C13 *)

\* the body received is one of newline-terminated frame lines followed by a
\* newline-terminated done line, and nothing else
C13_Body ==
    /\ Unterminated = << >>
    /\ Len(CompleteLines) >= 1
    /\ \A i \in 1 .. Len(CompleteLines) - 1 : IsFrame(CompleteLines[i])
    /\ IsDone(CompleteLines[Len(CompleteLines)])

\* C13: for a body of valid newline-terminated JSON lines that ends with a
\* done line, stream() yields exactly one chunk per line before the done
\* line, in arrival order, each with the message content of its line, and
\* no chunk for the done line.
C13_OneChunkPerLine ==
    pc \in {"read", "returned"} /\ C13_Body =>
        /\ Len(yielded) = Len(CompleteLines) - 1
        /\ \A i \in 1 .. Len(yielded) : yielded[i] = Wanted(CompleteLines[i])

\* a body of two frame lines of different content and a done line was
\* decoded to its end
C13_Witness ==
    /\ pc = "returned"
    /\ C13_Body
    /\ Len(yielded) = 2
    /\ yielded[1] # yielded[2]

-----------------------------------------------------------------------------
(* C14 *)

\* C14 as claimed: when the chat request returns a non-success HTTP status,
\* stream() yields no frame and raises a transport error that carries the
\* status code and the text of the response body.
C14_NonSuccessRaisesTransportError ==
    pc # "fetch" /\ response.status \notin 200 .. 299 =>
        /\ pc = "thrown"
        /\ yielded = << >>
        /\ thrown.name = "Ollama API error"
        /\ thrown.status = response.status
        /\ thrown.text = response.text

-----------------------------------------------------------------------------
(* C15 *)

\* the thresholds of the claim, the ratio in hundredths
C15_Thresholds(level) ==
    IF level = "low" THEN [minReasoning |-> 200, maxAnswer |-> 50, minRatio |-> 85]
    ELSE IF level = "medium"
         THEN [minReasoning |-> 350, maxAnswer |-> 75, minRatio |-> 88]
         ELSE [minReasoning |-> 500, maxAnswer |-> 100, minRatio |-> 90]

\* the detection has been evaluated for a configured level
C15_Evaluated ==
    /\ pc \in {"recover", "close"}
    /\ thinkingLevel \notin {"unread", "none"}

\* C15: the heuristic triggers repair exactly when reasoningLen >
\* minReasoning, answerLen < maxAnswer and ratio > minRatio, the thresholds
\* being (200, 50, 0.85) for low, (350, 75, 0.88) for medium and
\* (500, 100, 0.90) for high and any other level.
C15_TriggersByThresholds ==
    C15_Evaluated =>
        LET an == analyzeContent(fullResponse)
            t == C15_Thresholds(thinkingLevel)
        IN  pc = "recover" <=>
                /\ an.thinkingLength > t.minReasoning
                /\ an.contentLength < t.maxAnswer
                /\ an.thinkingLength * 100 > t.minRatio * an.totalLength

\* 600 characters of reasoning and 40 of answer have triggered repair at
\* level high
C15_Witness ==
    /\ C15_Evaluated
    /\ thinkingLevel = "high"
    /\ analyzeContent(fullResponse).thinkingLength = 600
    /\ analyzeContent(fullResponse).contentLength = 40
    /\ pc = "recover"

-----------------------------------------------------------------------------
(* C16 *)

\* the repair sub-turn has run to its end and its content was judged
C16_Judged ==
    /\ pc = "close"
    /\ hist.repair \in {"accepted", "discarded"}

\* the original transcript, a blank line, the repair content
C16_Combined ==
    Cat(Cat(hist.preRepair.text, << Run("ws", 2) >>), recoveryContent)

\* C16 as claimed: the repair is discarded and the original transcript kept
\* exactly when the repair sub-turn yielded fewer than 10 characters of new
\* content; with 10 or more characters the result is the original
\* transcript, a blank line, then the repair content.
C16_DiscardedBelowTen ==
    C16_Judged =>
        IF TLen(recoveryContent) < 10
        THEN hist.repair = "discarded" /\ fullResponse = hist.preRepair.text
        ELSE hist.repair = "accepted" /\ fullResponse = C16_Combined

-----------------------------------------------------------------------------
(* C17 *)

\* the recovery requests issued so far
RecoveryRequests == { i \in 1 .. Len(requests) : requests[i].kind = "recovery" }

\* the exchange has ended after a repair sub-turn was attempted
C17_Case == pc = "done" /\ RecoveryRequests # {}

\* C17 as claimed: whenever a repair sub-turn was attempted, the text
\* returned by the exchange has the pre-repair transcript as a prefix.
C17_Original ==
    C17_Case => StartsWith(result, hist.preRepair.text)

\* C17 amended: the same, unless the exchange was cancelled with the
\* new-chat reason, in which case the empty text is returned.
C17_RepairKeepsTranscript ==
    C17_Case =>
        IF aborted /\ abortReason = "new_chat"
        THEN result = << >>
        ELSE StartsWith(result, hist.preRepair.text)

\* an accepted repair was returned: the pre-repair transcript and more
C17_Witness ==
    /\ C17_Case
    /\ hist.repair = "accepted"
    /\ hist.preRepair.text # << >>
    /\ StartsWith(result, hist.preRepair.text)
    /\ TLen(result) > TLen(hist.preRepair.text)

-----------------------------------------------------------------------------
(* C18 *)

\* the exchange has ended after the repair sub-turn raised an error
C18_Case == pc = "done" /\ hist.repair = "failed"

\* the error was caught in the repair step: none was surfaced
C18_Caught == ~hist.raised /\ errorResponse = << >>

\* C18 as claimed: an error raised during the repair sub-turn is caught
\* inside the repair step, is not surfaced to the caller, and the exchange
\* returns the pre-repair transcript unchanged.
C18_Original ==
    C18_Case => C18_Caught /\ result = hist.preRepair.text

\* C18 amended: the error is caught and not surfaced, and the exchange
\* returns the pre-repair transcript, followed by </think> if its last
\* reasoning block was still open; an exchange cancelled with the new-chat
\* reason returns the empty text.
C18_RepairErrorCaught ==
    C18_Case =>
        /\ C18_Caught
        /\ IF aborted /\ abortReason = "new_chat"
           THEN result = << >>
           ELSE result = IF Depth(hist.preRepair.text) > 0
                         THEN Cat(hist.preRepair.text, << CLOSE >>)
                         ELSE hist.preRepair.text

\* the repair request failed and the pre-repair transcript was returned
C18_Witness ==
    /\ C18_Case
    /\ ~aborted
    /\ hist.preRepair.text # << >>
    /\ result = hist.preRepair.text

-----------------------------------------------------------------------------
(* C19 *)

\* C19 as claimed: the heuristic is evaluated at most once per exchange,
\* only if a reasoning level is configured, and only in a state where the
\* accumulator holds no pending tool calls.
C19_EvaluatedOnceWhenDone ==
    /\ hist.detections <= 1
    /\ hist.detections = 1 =>
          /\ thinkingLevel \in {"low", "medium", "high"}
          /\ ~hist.detectedPending

-----------------------------------------------------------------------------
(* C20 *)

\* C20: an exchange performs at most one repair sub-turn, and the request
\* of that sub-turn offers no tools.
C20_OneRepairWithoutTools ==
    /\ Cardinality(RecoveryRequests) <= 1
    /\ \A i \in RecoveryRequests : ~requests[i].tools
    /\ hist.repair # "none" => RecoveryRequests # {}

\* the stream of the one repair request is being read
C20_Witness ==
    /\ pc = "recStream"
    /\ Cardinality(RecoveryRequests) = 1
    /\ requests[Len(requests)].kind = "recovery"
    /\ ~requests[Len(requests)].tools
    /\ recoveryContent # << >>

-----------------------------------------------------------------------------
(* C21 *)

\* the request whose response run() is waiting for was issued before the
\* wait began; it is entered in the log when the response arrives
RequestUnderWay == pc \in {"start", "recover"}

\* C21 as claimed: once the cancellation token is set, no tool execution is
\* started and no further chat request is issued for the exchange.
C21_NothingStartedAfterCancel ==
    [][aborted /\ ~RequestUnderWay
          => execLog' = execLog /\ requests' = requests]_vars

-----------------------------------------------------------------------------
(* C22 *)

\* a step of a cancelled exchange adds no error text and lets no frame
\* change the transcript or the accumulator: the transcript stays as it is
\* until the end of a repair sub-turn combines it with the repair text that
\* was received before the cancellation, the accumulator stays as it is or
\* is cleared
C22_Frozen ==
    /\ errorResponse = << >>
    /\ errorResponse' = << >>
    /\ ~hist'.raised
    /\ recoveryContent' = recoveryContent
    /\ toolCallChunks' \in {toolCallChunks, << >>}
    /\ pc \notin {"recEnd", "close"} =>
          /\ fullResponse' = fullResponse
          /\ hasOpenThinkBlock' = hasOpenThinkBlock
    /\ pc = "recEnd" =>
          fullResponse' \in {fullResponse,
                             combinedContent(fullResponse, recoveryContent)}

\* the transcript as close() finalizes it
C22_Partial ==
    IF hasOpenThinkBlock THEN Cat(fullResponse, << CLOSE >>) ELSE fullResponse

\* C22 as claimed: cancellation is not an error; once the token is set, no
\* frame decoded afterwards changes the transcript or the accumulator, no
\* error text is added to the transcript, and the exchange returns the
\* partial transcript accumulated so far.
C22_Original ==
    [][aborted => /\ C22_Frozen
                  /\ pc = "close" => result' = C22_Partial]_vars

\* C22 amended: the same, but an exchange that was cancelled with the
\* new-chat reason returns the empty text instead of the partial transcript.
C22_CancelReturnsPartial ==
    [][aborted => /\ C22_Frozen
                  /\ pc = "close" =>
                        result' = IF abortReason' = "new_chat" THEN << >>
                                  ELSE C22_Partial]_vars

\* the user stopped the exchange while its only stream was being read: one
\* answer frame had been processed, the frame that arrived next was dropped,
\* and the answer of the first is returned
C22_Witness ==
    /\ pc = "done"
    /\ aborted
    /\ abortReason = "user_stopped"
    /\ Len(requests) = 1
    /\ framesLeft = MaxFrames - 2
    /\ result = << Run("ans", AnsLen) >>

-----------------------------------------------------------------------------
(* C23 *)

\* the positions at which the response of a request is being read
ReadingStream == {"stream", "toolStream", "recStream"}

\* the step issues a chat request and the request fails: run() does not go
\* on to read a stream
C23_RequestFails == requests' # requests /\ pc' \notin ReadingStream

\* the tool calls started so far, each as the pair of its round and its
\* position among the calls of the round
C23_Started ==
    { << execLog[i].round, execLog[i].pos >> : i \in 1 .. Len(execLog) }

\* C23: no retry is performed anywhere in an exchange.  A tool call that is
\* started was not started before, and when it has returned or thrown the
\* loop goes on to the next call; a failed chat request ends the exchange,
\* and after its end no request is issued and no tool call is started.
C23_NoRetry ==
    [][/\ execLog' # execLog =>
             /\ Len(execLog') = Len(execLog) + 1
             /\ << iteration, toolIdx >> \notin C23_Started
             /\ execLog'[Len(execLog')].round = iteration
             /\ execLog'[Len(execLog')].pos = toolIdx
       /\ pc = "execWait" =>
             /\ execLog' = execLog
             /\ pc' # "execWait" => toolIdx' = toolIdx + 1
       /\ C23_RequestFails => pc' = "close"
       /\ pc \in {"close", "done"} =>
             /\ requests' = requests
             /\ execLog' = execLog
             /\ pc' = "done"]_vars

\* an exchange has ended in which a tool call threw and the request that was
\* resubmitted with its error result failed: the call was executed once and
\* the failed request was the last
C23_Witness ==
    /\ pc = "done"
    /\ hist.raised
    /\ Len(requests) = 2
    /\ requests[2].kind = "tools"
    /\ Len(execLog) = 2
    /\ messages[Len(messages) - 1].content = "error: Tool execution failed"
    /\ result # << >>

-----------------------------------------------------------------------------
(* C24 *)

\* the body of request i.  The conversation only grows, so the messages the
\* request was made from are the first nmsg of the conversation
Sent(i) == [j \in 1 .. requests[i].nmsg |-> toOllamaMessage(messages[j])]

\* C24 as claimed: every tool result message serialized into a chat request
\* carries both tool_call_id and name.
C24_ToolResultsCarryIdAndName ==
    \A i \in 1 .. Len(requests) :
        \A j \in 1 .. requests[i].nmsg :
            Sent(i)[j].role = "tool" =>
                /\ Sent(i)[j].tool_call_id.present
                /\ Sent(i)[j].name.present

-----------------------------------------------------------------------------
(* C25 *)

\* C25 as claimed: for every tool call of a turn, the id serialized in the
\* tool_calls entry of the assistant message is the tool_call_id serialized
\* in the tool result message of that call, also when the upstream supplied
\* no id and the name of the tool is the id of the entry.
C25_IdsCorrespond ==
    \A i \in 1 .. Len(requests) :
        \A a \in 1 .. requests[i].nmsg :
            Sent(i)[a].tool_calls.present =>
                \A k \in 1 .. Len(Sent(i)[a].tool_calls.v) :
                    a + k <= requests[i].nmsg /\ Sent(i)[a + k].role = "tool"
                        => /\ Sent(i)[a + k].tool_call_id.present
                           /\ Sent(i)[a + k].tool_call_id.v
                                 = Sent(i)[a].tool_calls.v[k].id

-----------------------------------------------------------------------------
(* C26 *)

\* the characters of class k in the text s
RECURSIVE Chars(_, _)
Chars(s, k) ==
    IF s = << >> THEN 0
    ELSE (IF s[1].k = k THEN s[1].n ELSE 0) + Chars(Tail(s), k)

\* the answer characters of the text items of an array content
RECURSIVE ItemAnswer(_)
ItemAnswer(items) ==
    IF items = << >> THEN 0
    ELSE (IF items[1].type = "text" THEN Chars(items[1].text, "ans") ELSE 0)
         + ItemAnswer(Tail(items))

\* the answer characters a chunk carries
AnswerIn(c) ==
    IF c.ctype = "string" THEN Chars(c.content, "ans")
    ELSE IF c.ctype = "array" THEN ItemAnswer(c.items)
    ELSE 0

\* C26 as claimed: with reasoning suppression enabled, for any sequence of
\* frames the transcript never contains reasoning text or the delimiters of
\* a reasoning block, and the answer text of every frame is appended: each
\* processChunk extends the transcript by the answer text of its frame.
C26_SuppressionKeepsAnswer ==
    excludeThinking /\ last.op = "processChunk" =>
        /\ \A i \in 1 .. Len(fullResponse) :
               fullResponse[i].k \notin {"rsn", "open", "close"}
        /\ ~hasOpenThinkBlock
        /\ StartsWith(fullResponse, last.full)
        /\ Chars(fullResponse, "ans")
              = Chars(last.full, "ans") + AnswerIn(last.chunk)

-----------------------------------------------------------------------------
(* C27 *)

\* the step is a turn of a `for await` loop of run() or of the tool loop in
\* which the streamer processes the frame
C27_FrameProcessed ==
    pc \in {"stream", "toolStream"} /\ ~aborted /\ framesLeft' # framesLeft

\* C27 as claimed: every processed frame triggers the callback with the
\* full transcript so far, and over a whole exchange each value passed to
\* the callback extends the value passed before it.
C27_CallbackGrows ==
    [][/\ C27_FrameProcessed => hist'.shown = Some(fullResponse')
       /\ hist.shown.set =>
             /\ hist'.shown.set
             /\ StartsWith(hist'.shown.text, hist.shown.text)]_vars

-----------------------------------------------------------------------------
(* The exchange over the lines of the upstream: run() with each stream fed *)
(* by the decoder of NativeOllamaClient.stream, one line per read.  The    *)
(* reasoning of a frame arrives as the marker pair that ollamaAwareFetch   *)
(* writes into its content.  With reasoning frames of RsnShort characters  *)
(* the transcript stays under every threshold of the thinking-only         *)
(* heuristic, so the recovery stream is not part of this specification.    *)

\* the lines the upstream can send
UpstreamLines ==
    { << "{", "c:m", "}" >>,
      << "{", "c:a", "}" >>,
      << "{", "t:s", "}" >>,
      << "{", "t:f", "}" >>,
      << "{", "done", "}" >>,
      << "{", "c:a", "done", "}" >>,
      << "{", "junk" >> }

\* one line of the body of the current stream is read and decoded: a frame
\* is yielded to the `for await` of run() or of the tool loop, which passes
\* it to streamer.processChunk; a blank or malformed line is passed over;
\* a done line is the last of its body, so after its break the next read
\* returns done and the stream ends.  The history keeps each line with the
\* number of the stream it came in, and its verdict
StreamLine(line) ==
    /\ pc \in {"stream", "toolStream"}
    /\ framesLeft > 0
    /\ framesLeft' = framesLeft - 1
    /\ received' = Append(received, [epoch |-> hist.epoch, line |-> line])
    /\ decoded' = Append(decoded, LineVerdict(line))
    /\ CASE LineVerdict(line) = "frame" ->
              IF aborted
              THEN /\ pc' = AfterStream(pc)
                   /\ UNCHANGED << streamerVars, last, fragLog, hist >>
              ELSE /\ DoProcessChunk(FrameChunk(JSONparse(line)))
                   /\ pc' = pc
         [] LineVerdict(line) = "done" ->
              /\ pc' = AfterStream(pc)
              /\ UNCHANGED << streamerVars, last, fragLog, hist >>
         [] OTHER ->
              /\ pc' = pc
              /\ UNCHANGED << streamerVars, last, fragLog, hist >>
    /\ UNCHANGED << excludeThinking, thinkingLevel, aborted, abortReason,
                    messages, runLocals, result, requests, execLog,
                    response, buffer, lines, yielded, thrown >>

NextEndToEnd ==
    \/ \E ok \in BOOLEAN : StartStream(ok)
    \/ \E line \in UpstreamLines : StreamLine(line)
    \/ StreamEnd
    \/ CheckTools
    \/ LoopHead
    \/ StartTool
    \/ \E throws \in BOOLEAN : FinishTool(throws)
    \/ \E ok \in BOOLEAN : Resubmit(ok)
    \/ LoopTail
    \/ \E level \in Levels : Detect(level)
    \/ \E reason \in AbortReasons : Close(reason)
    \/ Abort

SpecEndToEnd == Init /\ [][NextEndToEnd]_vars

-----------------------------------------------------------------------------
(* C28 *)

\* the exchange is over, without an error and without a cancellation, and
\* reasoning is shown; the upstream sent, in the first stream, one reasoning frame and one frame
\* with a call of web_search, and in the second stream, requested after the
\* result of the tool was appended, one frame that carries the answer text
\* together with done: true
C28_Case ==
    /\ pc = "done"
    /\ ~excludeThinking
    /\ ~aborted
    /\ ~hist.raised
    /\ received = << [epoch |-> 0, line |-> << "{", "c:m", "}" >>],
                     [epoch |-> 0, line |-> << "{", "t:s", "}" >>],
                     [epoch |-> 1, line |-> << "{", "c:a", "done", "}" >>] >>
    /\ Len(requests) = 2
    /\ messages[Len(messages)].role = "tool"

\* the one tool execution, with the query the frame named
C28_OneExecution ==
    /\ Len(execLog) = 1
    /\ execLog[1].call.name = << "web_search" >>
    /\ execLog[1].call.args = [ok |-> TRUE, pairs |-> << "q" >>]

\* C28: in the exchange of C28_Case the returned text is a closed reasoning
\* block followed by the answer text of the final frame, and exactly one
\* tool execution was made, with the emitted query.
C28_EndToEnd ==
    C28_Case =>
        /\ C28_OneExecution
        /\ result = << NL, OPEN, Run("rsn", RsnShort), CLOSE,
                       Run("ans", AnsLen) >>

-----------------------------------------------------------------------------
(* executeOllamaWebSearch on drawn arguments: the request it sends and the *)
(* outcome of the call                                                     *)

\* how far below 1 and above 10 the drawn max_results reach
MaxResultsSpan == 10

\* the values toolCall.args.max_results can have: no member, or a number
MaxResultsArgs ==
    {Absent} \cup { Field(n) : n \in (1 - MaxResultsSpan) .. (10 + MaxResultsSpan) }

Min(a, b) == IF a <= b THEN a ELSE b

\* the argument is sent as it came
clampNone(maxResults) == maxResults

\* Math.min(Math.max(maxResults, 1), 10)
clampedMaxResults(maxResults) == Min(Max(maxResults, 1), 10)

\* maxResults: number = 5
maxResultsParameter(arg) == IF arg.present THEN arg.v ELSE 5

\* JSON.stringify({query, max_results: clampedMaxResults})
SearchBody(query, maxResults) ==
    [url |-> "/api/web_search", query |-> query,
     max_results |-> clampedMaxResults(maxResults)]

\* the tool loop of run() is about to execute one call of web_search
InitSearch ==
    /\ FreshStreamer
    /\ IdleDecoder
    /\ excludeThinking = FALSE
    /\ pc = "search"
    /\ thinkingLevel = "unread"
    /\ aborted = FALSE
    /\ abortReason = "none"
    /\ messages = << >>
    /\ iteration = 1
    /\ toolCalls \in { << [name |-> << "web_search" >>,
                           args |-> [query |-> "q", max_results |-> arg]] >> :
                        arg \in MaxResultsArgs }
    /\ toolIdx = 1
    /\ recoveryContent = << >>
    /\ result = << >>
    /\ last = NoLast
    /\ fragLog = << >>
    /\ requests = << >>
    /\ execLog = << >>
    /\ hist = NoHist
    /\ framesLeft = 0

\* executeOllamaWebSearch(baseUrl, apiKey, toolCall.args.query,
\* toolCall.args.max_results): the request is sent through ollamaAwareFetch;
\* a response that is not ok throws, else the parsed body is returned
ExecuteOllamaWebSearch(isOllama, res) ==
    /\ pc = "search"
    /\ LET args == toolCalls[1].args
       IN  requests' = << SearchBody(args.query,
                                     maxResultsParameter(args.max_results)) >>
    /\ response' = ollamaAwareFetch(isOllama, res)
    /\ IF ResponseOk(response')
       THEN pc' = "returned" /\ thrown' = thrown
       ELSE /\ pc' = "thrown"
            /\ thrown' = IF response'.standard
                         THEN APIError(response'.status, response'.text)
                         ELSE TypeError
    /\ UNCHANGED << streamerVars, excludeThinking, thinkingLevel, aborted,
                    abortReason, messages, runLocals, result, last, fragLog,
                    execLog, hist, framesLeft, buffer, lines, yielded,
                    received, decoded >>

NextSearch ==
    \E isOllama \in BOOLEAN, res \in RequestUrlResults :
        ExecuteOllamaWebSearch(isOllama, res)

SpecSearch == InitSearch /\ [][NextSearch]_vars

-----------------------------------------------------------------------------
(* C29 *)

\* the max_results the caller passed, if any
C29_Arg == toolCalls[1].args.max_results

\* the request of the search has been sent
C29_Sent == pc \in {"returned", "thrown"} /\ Len(requests) = 1

\* C29: the max_results of the request sent is 10 for an argument above 10,
\* 1 for an argument below 1, the argument itself within 1..10, and 5 when
\* the argument is omitted.
C29_MaxResultsClamped ==
    C29_Sent =>
        LET sent == requests[1].max_results
        IN  IF ~C29_Arg.present THEN sent = 5
            ELSE IF C29_Arg.v > 10 THEN sent = 10
            ELSE IF C29_Arg.v < 1 THEN sent = 1
            ELSE sent = C29_Arg.v

\* a search asked for 11 results has returned, 10 were requested
C29_Witness ==
    /\ pc = "returned"
    /\ C29_Arg = Field(11)
    /\ requests[1].max_results = 10

-----------------------------------------------------------------------------
(* C30 *)

\* s begins with p
IsPrefix(p, s) == Len(p) <= Len(s) /\ SubSeq(s, 1, Len(p)) = p

\* the entry at position i of the Map is still there after the step
C30_Kept(i) ==
    /\ i <= Len(toolCallChunks')
    /\ toolCallChunks'[i].idx = toolCallChunks[i].idx

\* C30: once an entry of the accumulator has a non-empty id, no later
\* fragment of its index changes the id, and name and argument text of the
\* entry are only extended.
C30_IdSetOnce ==
    [][\A i \in 1 .. Len(toolCallChunks) :
          C30_Kept(i) =>
              /\ toolCallChunks[i].id # "" =>
                     toolCallChunks'[i].id = toolCallChunks[i].id
              /\ IsPrefix(toolCallChunks[i].name, toolCallChunks'[i].name)
              /\ IsPrefix(toolCallChunks[i].args, toolCallChunks'[i].args)]_vars

-----------------------------------------------------------------------------
(* C31 *)

\* the segments of a list rendered one after the other from state s: a
\* reasoning segment goes into a block, opened if none is open, and a text
\* segment closes the open block and is appended
RECURSIVE C31_InOrder(_, _)
C31_InOrder(s, items) ==
    IF items = << >> THEN s
    ELSE IF Head(items).type = "thinking"
         THEN C31_InOrder(Add(OpenBlock(s), Head(items).text), Tail(items))
         ELSE C31_InOrder(Add(IF Head(items).text # << >> THEN CloseBlock(s)
                                  ELSE s,
                                  Head(items).text), Tail(items))

\* the streamer as processChunk found it, after the block left open by the
\* frames before was closed for a frame that bears no reasoning
C31_Start ==
    LET s == [open |-> last.open, full |-> last.full]
        c == last.chunk
    IN  IF s.open /\ ~isThinkingChunk(c) /\ ~hasOllamaThinking(c)
           /\ ~hasThinkingMarkers(c)
        THEN CloseBlock(s) ELSE s

\* C31: after processChunk of a frame that carries a list of typed segments,
\* with reasoning shown, the transcript is the one the segments give when
\* they are rendered in their order in the list.
C31_SegmentsInOrder ==
    (/\ last.op = "processChunk"
     /\ last.chunk.ctype = "array"
     /\ ~excludeThinking)
    => fullResponse = C31_InOrder(C31_Start, last.chunk.items).full

-----------------------------------------------------------------------------
(* C32 *)

\* the frame is classified as reasoning-bearing by one of the predicates of
\* processChunk
C32_ReasoningBearing(c) ==
    isThinkingChunk(c) \/ hasOllamaThinking(c) \/ hasThinkingMarkers(c)

-----------------------------------------------------------------------------
(* C33 *)

\* the tool loop has begun a round
C33_LoopRan == iteration > 0

\* the step leaves the transcript as it is or extends it at its end
C33_TranscriptKept == StartsWith(fullResponse', fullResponse)

\* run() returns: the step from streamer.close() to the return
C33_Returns == pc = "close" /\ pc' = "done"

\* the statement without the exception of a cancellation for a new chat
C33_Original ==
    [][C33_LoopRan =>
          /\ C33_TranscriptKept
          /\ C33_Returns => StartsWith(result', fullResponse)]_vars

\* C33: once the tool loop runs, every step extends the transcript of the
\* streamer, so the transcript at the end of a round is a prefix of the
\* transcript at the end of the next, and run() returns the closed
\* transcript of the streamer it ends with, which begins with the transcript
\* of every round, unless the exchange was cancelled for a new chat, in
\* which case it returns the empty text.
C33_RoundsAccumulate ==
    [][C33_LoopRan =>
          /\ C33_TranscriptKept
          /\ C33_Returns =>
                IF aborted /\ abortReason' = "new_chat"
                THEN result' = << >>
                ELSE result' = fullResponse'
                     /\ StartsWith(result', fullResponse)]_vars

\* the primary stream and the stream after one tool round have each
\* brought an answer frame, and run() has returned both answers
C33_Witness ==
    /\ pc = "done"
    /\ ~aborted
    /\ iteration = 1
    /\ Len(requests) = 2
    /\ framesLeft = MaxFrames - 3
    /\ result = << Run("ans", 2 * AnsLen) >>

-----------------------------------------------------------------------------
(* C34 *)

\* C34: whatever the url and the text of the requestUrl result, what
\* ollamaAwareFetch resolves to is a standard Response.
C34_AlwaysStandardResponse == pc # "fetch" => response.standard

-----------------------------------------------------------------------------
(* C35 *)

\* C35: whatever the encoding of a frame and whether or not reasoning is
\* shown, processChunk extends the transcript by all the answer text the
\* frame carries.
C35_NoAnswerDropped ==
    last.op = "processChunk" =>
        Chars(fullResponse, "ans")
           = Chars(last.full, "ans") + AnswerIn(last.chunk)

-----------------------------------------------------------------------------
(* C36 *)

\* C36: when a stream has ended, the accumulator holds one entry for each
\* call that the frames of the stream emitted, in their order, each with
\* the name and the argument text of its call: calls of different frames
\* are not merged.
C36_CallsNotMerged ==
    pc \in {"checkTools", "loopTail"} =>
        /\ Len(toolCallChunks) = Len(Arrived)
        /\ \A i \in 1 .. Len(toolCallChunks) :
              /\ toolCallChunks[i].name = Arrived[i].name
              /\ toolCallChunks[i].args = Arrived[i].args

-----------------------------------------------------------------------------
(* The exchange under the scheduling of the runtime: a step of run() that  *)
(* can be taken is taken in the end, since every response stream delivers  *)
(* its next frame or ends and every tool call returns or throws.  The user *)
(* is free to cancel or not.  The frames are a long reasoning, an answer   *)
(* and a long reasoning that holds the tool calls of the frame it was      *)
(* split from; the frames of the recovery are an answer and a short        *)
(* answer.                                                                 *)

LiveFrames ==
    { Plain(Marked(RsnLong)), Plain(<< Run("ans", AnsLen) >>),
      Chunk("string", Marked(RsnLong), << >>, 0, 0, 0, FALSE, NativeCalls) }

LiveRecoveryFrames ==
    { Plain(<< Run("ans", AnsLen) >>), Plain(<< Run("ans", ShortAnsLen) >>) }

\* the steps of run(): all but the cancellation by the user
RunStep ==
    \/ \E ok \in BOOLEAN : StartStream(ok)
    \/ \E c \in LiveFrames : StreamChunk(c)
    \/ StreamEnd
    \/ CheckTools
    \/ LoopHead
    \/ StartTool
    \/ \E throws \in BOOLEAN : FinishTool(throws)
    \/ \E ok \in BOOLEAN : Resubmit(ok)
    \/ LoopTail
    \/ Detect("none")
    \/ \E level \in Levels \ {"none"} : Detect(level)
    \/ \E ok \in BOOLEAN : RecoverRequest(ok)
    \/ \E c \in LiveRecoveryFrames : RecoverChunk(c)
    \/ RecoverStreamEnd
    \/ RecoverEnd
    \/ \E reason \in AbortReasons : Close(reason)

NextLive == RunStep \/ Abort

SpecLive == Init /\ [][NextLive]_vars /\ WF_vars(RunStep)

-----------------------------------------------------------------------------
(* C37 *)

\* the requests of one kind issued so far
C37_Requests(kind) ==
    Cardinality({ i \in 1 .. Len(requests) : requests[i].kind = kind })

\* one initial request, at most MAX_ITERATIONS after tool rounds, at most
\* one repair request: at most 5 in all
C37_RequestsBounded ==
    /\ C37_Requests("primary") <= 1
    /\ C37_Requests("tools") <= MAX_ITERATIONS
    /\ C37_Requests("recovery") <= 1
    /\ Len(requests) <= 5

\* C37: every exchange comes to its end, run() returns, and at no time has
\* it issued more than 5 chat requests.
C37_TerminatesWithinFiveRequests ==
    <>(pc = "done") /\ []C37_RequestsBounded

\* an exchange has ended after 5 requests: the initial one, three after tool
\* rounds and the repair request
C37_Witness ==
    /\ pc = "done"
    /\ Len(requests) = 5
    /\ C37_Requests("tools") = 3
    /\ C37_Requests("recovery") = 1

-----------------------------------------------------------------------------
(* The exchange when tool rounds follow one another up to the ceiling: the *)
(* frames are those of the exchange above and a frame of tool calls with   *)
(* no text, so that a transcript of one long reasoning lasts through all   *)
(* the rounds.                                                             *)

CeilingFrames ==
    LiveFrames \cup { Chunk("string", << >>, << >>, 0, 0, 0, FALSE, NativeCalls) }

NextCeiling ==
    \/ \E ok \in BOOLEAN : StartStream(ok)
    \/ \E c \in CeilingFrames : StreamChunk(c)
    \/ StreamEnd
    \/ CheckTools
    \/ LoopHead
    \/ StartTool
    \/ \E throws \in BOOLEAN : FinishTool(throws)
    \/ \E ok \in BOOLEAN : Resubmit(ok)
    \/ LoopTail
    \/ \E level \in Levels : Detect(level)
    \/ \E ok \in BOOLEAN : RecoverRequest(ok)
    \/ \E c \in LiveRecoveryFrames : RecoverChunk(c)
    \/ RecoverStreamEnd
    \/ RecoverEnd
    \/ \E reason \in AbortReasons : Close(reason)
    \/ Abort

SpecCeiling == Init /\ [][NextCeiling]_vars

-----------------------------------------------------------------------------
(* C38 *)

\* message i of msgs is an assistant message that carries tool calls
C38_CarriesCalls(msgs, i) == msgs[i].tool_calls # << >>

\* message i of msgs is directly followed by one tool result for each of
\* its calls
C38_Answered(msgs, i) ==
    LET n == Len(msgs[i].tool_calls)
    IN  /\ i + n <= Len(msgs)
        /\ \A k \in 1 .. n : msgs[i + k].role = "tool"

\* the messages a request was sent with: the conversation as long as it was
C38_SentWith(r) == SubSeq(messages, 1, requests[r].nmsg)

\* C38: every request is sent with a conversation in which each assistant
\* message that carries tool calls is directly followed by the results of
\* its calls, and behind an assistant message whose results are not yet all
\* there the conversation holds nothing but results.
C38_ToolCallsAnswered ==
    /\ \A r \in 1 .. Len(requests) :
          \A i \in 1 .. requests[r].nmsg :
              C38_CarriesCalls(C38_SentWith(r), i)
                  => C38_Answered(C38_SentWith(r), i)
    /\ \A i \in 1 .. Len(messages) :
          C38_CarriesCalls(messages, i) /\ ~C38_Answered(messages, i)
              => \A j \in i + 1 .. Len(messages) : messages[j].role = "tool"

-----------------------------------------------------------------------------
(* C39 *)

\* the chunks the for-of loop yields from the lines ls of one read
RECURSIVE C39_YieldedOf(_)
C39_YieldedOf(ls) ==
    IF ls = << >> THEN << >>
    ELSE LET verdict == LineVerdict(Head(ls))
         IN  (IF verdict = "frame"
              THEN << FrameChunk(JSONparse(Head(ls))) >>
              ELSE << >>)
             \o C39_YieldedOf(RestAfter(verdict, ls))

\* the chunks stream() yields when the whole body arrives in one read
C39_InOneRead(body) ==
    LET segs == Split(body)
    IN  C39_YieldedOf(SubSeq(segs, 1, Len(segs) - 1))

\* C39: the chunks yielded depend on the bytes of the body only, not on the
\* reads they arrive in: when the generator returns, the chunks yielded from
\* the reads taken are those yielded from the same bytes taken in one read.
C39_SplitIndependent ==
    pc = "returned" => yielded = C39_InOneRead(Flatten(received))

-----------------------------------------------------------------------------
(* C40 *)

\* the exchange has ended with the content of the repair sub-turn in the
\* text it returns
C40_Case == pc = "done" /\ hist.repair = "accepted" /\ result # << >>

\* C40: the frames of the repair sub-turn are classified like those of the
\* primary stream: the text returned after an accepted repair holds no
\* <THINKING> or </THINKING> delimiter, and the reasoning text it holds
\* stands inside a think block.
C40_RepairClassified ==
    C40_Case =>
        \A i \in 1 .. Len(result) :
            /\ result[i].k \notin {"mopen", "mclose"}
            /\ result[i].k = "rsn" => InBlock(result, i)

====
